---- MODULE Spec2Model ----
(***************************************************************************)
(* Retrieval-and-ranking pipeline of the CDP support agent:                *)
(*   src/src/scraper/processors.py     chunk preparer                      *)
(*   src/src/retriever/retriever.py    query classifier and retrievers     *)
(*   src/src/retriever/ranker.py       result ranker, comparison processor *)
(*   src/src/chatbot/query_processor.py  request pipeline                  *)
(*   src/src/chatbot/response_generator.py  payload of a result            *)
(*   src/src/api/routes.py             POST /api/chat                      *)
(*                                                                         *)
(*   src/src/indexer/vectorstore.py    the Index (VectorStore.query), and  *)
(*                                     the indexing run                    *)
(*   src/src/scraper/scraper.py        the crawl                           *)
(*                                                                         *)
(* A string is the sequence of its characters.  Floats are exact rationals *)
(* <<numerator, denominator>> in lowest terms.                             *)
(***************************************************************************)
EXTENDS Integers, Sequences, FiniteSets, TLC

VARIABLES
    \* ---- split_text_into_chunks (processors.py) ----
    sentences,        \* result of nltk.sent_tokenize(text)
    chunk_size,       \* parameter
    chunk_overlap,    \* parameter
    sent_idx,         \* position of the for loop over sentences
    current_chunk,    \* list of sentences of the open chunk
    current_size,     \* running sum of len(sentence)
    chunks,           \* list of closed chunks (joined strings)
    chunk_sents,      \* history: the sentence list each closed chunk was joined from
    carried,          \* history: how many overlap sentences each closed chunk started with
    open_carried,     \* history: len(overlap_sentences) the open chunk started with
    split_pc,         \* "idle" | "loop" | "done"
    \* ---- _extract_feature_for_comparison (retriever.py), called alone ----
    feat_query,       \* argument
    feat_result,      \* what the call gave: a value, None, or an exception
    feat_pc,          \* "idle" | "call" | "done"
    \* ---- ResultRanker.rank_results, filter_results (ranker.py) ----
    rank_input,       \* results handed to rank_results
    rank_query,       \* query handed to rank_results
    ranked_results,   \* what rank_results returned
    filtered_results, \* what filter_results returned for ranked_results
    rank_pc,          \* "idle" | "rank" | "filter" | "done"
    \* ---- QueryProcessor.process_query (query_processor.py) ----
    message,            \* the query as the user sent it
    processed_query,    \* _preprocess_query(message)
    query_analysis,     \* the analysis the retriever returned
    comparison_query,   \* query text of the per-platform queries
    relevant_results,   \* what DocumentRetriever.retrieve returned
    comparison_results, \* dict of retrieve_for_comparison, in insertion order
    index_calls,        \* history: the calls of VectorStore.query and their answers
    response,           \* what process_query returned, or the exception it raised
    query_pc,           \* "idle" | "call" | "route" | "compare" | "done"
    \* ---- DocumentRetriever._classify_query_type (retriever.py), called alone ----
    classify_query,   \* argument
    classify_result,  \* what the call returned
    classify_pc,      \* "idle" | "call" | "done"
    \* ---- ResponseGenerator.generate_response (response_generator.py) ----
    respond_input,    \* argument query_response: a result of process_query
    payload,          \* what generate_response returned
    respond_pc,       \* "idle" | "call" | "done"
    \* ---- POST /api/chat (routes.py) ----
    request,          \* what request.json gives for the request body
    chat_store,       \* the Index the request is served from
    pipeline_calls,   \* history: the arguments process_query was called with
    http_response,    \* status and JSON body of the reply
    chat_pc,          \* "idle" | "call" | "done"
    \* ---- concurrent calls of process_query on one QueryProcessor ----
    store,            \* the Index shared by the calls
    frames,           \* the local variables of each call
    pcs,              \* where each call is
    \* ---- ResponseGenerator._extract_steps, called alone ----
    steps_content,    \* argument content
    steps_found,      \* what the call returned
    steps_pc,         \* "idle" | "call" | "done"
    \* ---- process_and_index_documents (vectorstore.py) ----
    raw_documents,        \* the documents of the JSON files, in the order they are read
    index_chunk_size,     \* parameter chunk_size
    index_chunk_overlap,  \* parameter chunk_overlap
    doc_pos,              \* position of the loop over the files
    all_document_chunks,  \* the chunks gathered so far
    collection_ids,       \* the ids add_documents handed to the collection
    index_pc,             \* "idle" | "gather" | "done"
    \* ---- extract_metadata: the loop over the headings (processors.py) ----
    meta_headings,      \* data["headings"]
    heading_pos,        \* position of the loop
    current_level,      \* level of the heading before
    current_hierarchy,  \* the stack of heading texts
    meta_hierarchy,     \* heading_hierarchy: the strings built so far
    meta_pc,            \* "idle" | "loop" | "done"
    \* ---- CDPScraper.crawl (scraper.py) ----
    site,             \* the web: the links each page of it holds
    max_pages,        \* parameter
    urls_to_visit,    \* the queue
    visited_urls,     \* self.visited_urls
    page_count,       \* pages saved so far
    fetched,          \* history: the URLs get_page_content was called with
    saved,            \* history: the URLs save_content was called with in this call
    crawl_calls,      \* calls of crawl made on the scraper
    crawl_pc          \* "idle" | "new" | "loop" | "done"

chunkVars == <<sentences, chunk_size, chunk_overlap, sent_idx, current_chunk,
               current_size, chunks, chunk_sents, carried, open_carried, split_pc>>

featVars == <<feat_query, feat_result, feat_pc>>

rankVars == <<rank_input, rank_query, ranked_results, filtered_results, rank_pc>>

queryVars == <<message, processed_query, query_analysis, comparison_query,
               relevant_results, comparison_results, index_calls, response,
               query_pc>>

classifyVars == <<classify_query, classify_result, classify_pc>>

respondVars == <<respond_input, payload, respond_pc>>

chatVars == <<request, chat_store, pipeline_calls, http_response, chat_pc>>

callVars == <<store, frames, pcs>>

stepsVars == <<steps_content, steps_found, steps_pc>>

indexVars == <<raw_documents, index_chunk_size, index_chunk_overlap, doc_pos,
               all_document_chunks, collection_ids, index_pc>>

metaVars == <<meta_headings, heading_pos, current_level, current_hierarchy,
              meta_hierarchy, meta_pc>>

crawlVars == <<site, max_pages, urls_to_visit, visited_urls, page_count, fetched,
               saved, crawl_calls, crawl_pc>>

vars == <<chunkVars, featVars, rankVars, queryVars, classifyVars, respondVars,
          chatVars, callVars, stepsVars, indexVars, metaVars, crawlVars>>

\* the parts that follow the request pipeline
laterVars == <<stepsVars, indexVars, metaVars, crawlVars>>

\* the parts of the request pipeline
pipelineVars == <<chunkVars, featVars, rankVars, queryVars, classifyVars, respondVars,
                  chatVars, callVars>>

\* what the actions of one part leave alone
notSplit == <<featVars, rankVars, queryVars, classifyVars, respondVars, chatVars,
              callVars, laterVars>>

notFeat == <<chunkVars, rankVars, queryVars, classifyVars, respondVars, chatVars,
             callVars, laterVars>>

notRank == <<chunkVars, featVars, queryVars, classifyVars, respondVars, chatVars,
             callVars, laterVars>>

notQuery == <<chunkVars, featVars, rankVars, classifyVars, respondVars, chatVars,
              callVars, laterVars>>

notClassify == <<chunkVars, featVars, rankVars, queryVars, respondVars, chatVars,
                 callVars, laterVars>>

notRespond == <<chunkVars, featVars, rankVars, queryVars, classifyVars, chatVars,
                callVars, laterVars>>

notChat == <<chunkVars, featVars, rankVars, queryVars, classifyVars, respondVars,
             callVars, laterVars>>

notCalls == <<chunkVars, featVars, rankVars, queryVars, classifyVars, respondVars,
              chatVars, laterVars>>

notSteps == <<pipelineVars, indexVars, metaVars, crawlVars>>

notIndex == <<pipelineVars, stepsVars, metaVars, crawlVars>>

notMeta == <<pipelineVars, stepsVars, indexVars, crawlVars>>

notCrawl == <<pipelineVars, stepsVars, indexVars, metaVars>>

----------------------------------------------------------------------------
(* Generic helpers                                                         *)

Min(a, b) == IF a <= b THEN a ELSE b

Max(a, b) == IF a >= b THEN a ELSE b

Range(s) == {s[i] : i \in 1..Len(s)}

Least(S) == CHOOSE x \in S : \A y \in S : x <= y

Greatest(S) == CHOOSE x \in S : \A y \in S : x >= y

SeqsUpTo(S, n) == UNION {[1..k -> S] : k \in 0..n}

RECURSIVE Flatten(_)
Flatten(ss) == IF ss = <<>> THEN <<>> ELSE Head(ss) \o Flatten(Tail(ss))

RECURSIVE SumLen(_)
SumLen(ss) == IF ss = <<>> THEN 0 ELSE Len(Head(ss)) + SumLen(Tail(ss))

\* " ".join(parts)
RECURSIVE JoinSpace(_)
JoinSpace(parts) ==
    IF parts = <<>> THEN <<>>
    ELSE IF Len(parts) = 1 THEN Head(parts)
    ELSE Head(parts) \o <<" ">> \o JoinSpace(Tail(parts))

\* Exact rationals <<numerator, denominator>>, denominator > 0, lowest terms
Abs(n) == IF n < 0 THEN -n ELSE n

RECURSIVE Gcd(_, _)
Gcd(a, b) == IF b = 0 THEN a ELSE Gcd(b, a % b)

Rat(n, d) == LET g == Gcd(Abs(n), d) IN <<n \div g, d \div g>>

RAdd(a, b) == Rat(a[1] * b[2] + b[1] * a[2], a[2] * b[2])

RSub(a, b) == Rat(a[1] * b[2] - b[1] * a[2], a[2] * b[2])

RMul(a, b) == Rat(a[1] * b[1], a[2] * b[2])

RLeq(a, b) == a[1] * b[2] <= b[1] * a[2]

RLess(a, b) == a[1] * b[2] < b[1] * a[2]

RMin(a, b) == IF RLeq(a, b) THEN a ELSE b

\* Optional values and raised exceptions
Some(v) == [kind |-> "value", value |-> v]

None == [kind |-> "none", value |-> <<>>]

Raised(error) == [kind |-> "raise", value |-> error]

----------------------------------------------------------------------------
(* Strings: sequences of one-character strings                             *)

\* \s of the re module, for the characters the inputs are made of
WhiteSpace == {" ", "\t", "\n"}

\* characters that are neither \w nor \s
Punctuation == {"!", "?", ".", ",", "-", "'", ">", "*", ":"}

IsWordChar(c) == c \notin WhiteSpace /\ c \notin Punctuation

UpperCase == <<"A", "B", "C", "D", "E", "F", "G", "H", "I", "J", "K", "L", "M",
               "N", "O", "P", "Q", "R", "S", "T", "U", "V", "W", "X", "Y", "Z">>

LowerCase == <<"a", "b", "c", "d", "e", "f", "g", "h", "i", "j", "k", "l", "m",
               "n", "o", "p", "q", "r", "s", "t", "u", "v", "w", "x", "y", "z">>

ToLower ==
    [c \in Range(UpperCase) |-> LowerCase[CHOOSE k \in 1..26 : UpperCase[k] = c]]

LowerChar(c) == IF c \in DOMAIN ToLower THEN ToLower[c] ELSE c

ToUpper ==
    [c \in Range(LowerCase) |-> UpperCase[CHOOSE k \in 1..26 : LowerCase[k] = c]]

UpperChar(c) == IF c \in DOMAIN ToUpper THEN ToUpper[c] ELSE c

\* str.lower()
Lower(s) == SubSeq([i \in 1..Len(s) |-> LowerChar(s[i])], 1, Len(s))

\* the positions of s, in order
Indices(s) == [k \in 1..Len(s) |-> k]

\* s[i:i+len(t)] == t
IsAt(t, s, i) ==
    /\ i >= 1
    /\ i + Len(t) - 1 <= Len(s)
    /\ \A k \in 1..Len(t) : s[i + k - 1] = t[k]

\* "t in s" for a non-empty t; re.search of a plain literal
Contains(s, t) == \E i \in 1..Len(s) : IsAt(t, s, i)

\* str.strip()
Strip(s) ==
    LET inked == {i \in 1..Len(s) : s[i] \notin WhiteSpace}
    IN IF inked = {} THEN <<>>
       ELSE SubSeq(s, CHOOSE i \in inked : \A j \in inked : i <= j,
                      CHOOSE i \in inked : \A j \in inked : i >= j)

\* t * n
RECURSIVE Repeat(_, _)
Repeat(t, n) == IF n = 0 THEN <<>> ELSE t \o Repeat(t, n - 1)

\* "".join(parts)
RECURSIVE Concat(_)
Concat(parts) == IF parts = <<>> THEN <<>> ELSE Head(parts) \o Concat(Tail(parts))

T_how_does_ == <<"h", "o", "w", " ", "d", "o", "e", "s", " ">>

T_how_do_ == <<"h", "o", "w", " ", "d", "o", " ">>

T_compare_ == <<"c", "o", "m", "p", "a", "r", "e", " ">>

T_difference_between_ == <<"d", "i", "f", "f", "e", "r", "e", "n", "c", "e", " ", "b", "e", "t", "w", "e", "e", "n", " ">>

T_which_is_better_ == <<"w", "h", "i", "c", "h", " ", "i", "s", " ", "b", "e", "t", "t", "e", "r", " ">>

T_which_is_better_for_ == <<"w", "h", "i", "c", "h", " ", "i", "s", " ", "b", "e", "t", "t", "e", "r", " ", "f", "o", "r", " ">>

T_handle == <<"h", "a", "n", "d", "l", "e">>

T_manage == <<"m", "a", "n", "a", "g", "e">>

T_support == <<"s", "u", "p", "p", "o", "r", "t">>

T_implement == <<"i", "m", "p", "l", "e", "m", "e", "n", "t">>

T_provide == <<"p", "r", "o", "v", "i", "d", "e">>

T_in_terms_of == <<"i", "n", " ", "t", "e", "r", "m", "s", " ", "o", "f">>

T_regarding == <<"r", "e", "g", "a", "r", "d", "i", "n", "g">>

T_for == <<"f", "o", "r">>

T_compare_for == <<"c", "o", "m", "p", "a", "r", "e", " ", "f", "o", "r">>

T_handle_ == <<"h", "a", "n", "d", "l", "e", " ">>

T_for_ == <<"f", "o", "r", " ">>

T_data_ == <<"d", "a", "t", "a", " ">>

T_blank == <<" ">>

T_sync == <<"s", "y", "n", "c">>

T_tracking == <<"t", "r", "a", "c", "k", "i", "n", "g">>

T__x == <<" ", "x">>

T_Data_Tracking_Guide ==
    <<"D", "a", "t", "a", " ", "T", "r", "a", "c", "k", "i", "n", "g", " ", "G",
      "u", "i", "d", "e">>

T_Data_Tracking == <<"D", "a", "t", "a", " ", "T", "r", "a", "c", "k", "i", "n", "g">>

T_Data_Tracking_gt_Setup ==
    <<"D", "a", "t", "a", " ", "T", "r", "a", "c", "k", "i", "n", "g", " ", ">",
      " ", "S", "e", "t", "u", "p">>

T_api == <<"a", "p", "i">>

T_overview == <<"o", "v", "e", "r", "v", "i", "e", "w">>

T_how_to_data_tracking ==
    <<"h", "o", "w", " ", "t", "o", " ", "d", "a", "t", "a", " ", "t", "r",
      "a", "c", "k", "i", "n", "g">>

T_how_to == <<"h", "o", "w", " ", "t", "o">>

T_how_do == <<"h", "o", "w", " ", "d", "o">>

T_how_can == <<"h", "o", "w", " ", "c", "a", "n">>

T_how_should == <<"h", "o", "w", " ", "s", "h", "o", "u", "l", "d">>

T_segment == <<"s", "e", "g", "m", "e", "n", "t">>

T_mparticle == <<"m", "p", "a", "r", "t", "i", "c", "l", "e">>

T_lytics == <<"l", "y", "t", "i", "c", "s">>

T_zeotap == <<"z", "e", "o", "t", "a", "p">>

T_cdp == <<"c", "d", "p">>

T_customer_data_platform == <<"c", "u", "s", "t", "o", "m", "e", "r", " ",
                              "d", "a", "t", "a", " ", "p", "l", "a", "t",
                              "f", "o", "r", "m">>

T_data == <<"d", "a", "t", "a">>

T_analytics == <<"a", "n", "a", "l", "y", "t", "i", "c", "s">>

T_integration == <<"i", "n", "t", "e", "g", "r", "a", "t", "i", "o", "n">>

T_source == <<"s", "o", "u", "r", "c", "e">>

T_destination == <<"d", "e", "s", "t", "i", "n", "a", "t", "i", "o", "n">>

T_audience == <<"a", "u", "d", "i", "e", "n", "c", "e">>

T_profile == <<"p", "r", "o", "f", "i", "l", "e">>

T_event == <<"e", "v", "e", "n", "t">>

T_user == <<"u", "s", "e", "r">>

T_identity == <<"i", "d", "e", "n", "t", "i", "t", "y">>

T_campaign == <<"c", "a", "m", "p", "a", "i", "g", "n">>

T_compare == <<"c", "o", "m", "p", "a", "r", "e">>

T_vs == <<"v", "s">>

T_versus == <<"v", "e", "r", "s", "u", "s">>

T_difference_between == <<"d", "i", "f", "f", "e", "r", "e", "n", "c", "e",
                          " ", "b", "e", "t", "w", "e", "e", "n">>

T_which_is_better == <<"w", "h", "i", "c", "h", " ", "i", "s", " ", "b", "e",
                       "t", "t", "e", "r">>

T_pros_and_cons == <<"p", "r", "o", "s", " ", "a", "n", "d", " ", "c", "o",
                     "n", "s">>

T_steps_to == <<"s", "t", "e", "p", "s", " ", "t", "o">>

T_guide_for == <<"g", "u", "i", "d", "e", " ", "f", "o", "r">>

T_tutorial == <<"t", "u", "t", "o", "r", "i", "a", "l">>

T_instructions_for == <<"i", "n", "s", "t", "r", "u", "c", "t", "i", "o",
                        "n", "s", " ", "f", "o", "r">>

T_process_of == <<"p", "r", "o", "c", "e", "s", "s", " ", "o", "f">>

T__compare == <<" ", "c", "o", "m", "p", "a", "r", "e">>

T_Compare_ == <<"C", "o", "m", "p", "a", "r", "e", " ">>

T_How_to_use_ == <<"H", "o", "w", " ", "t", "o", " ", "u", "s", "e", " ">>

T_segment_ == <<"s", "e", "g", "m", "e", "n", "t", " ">>

T_Segment_vs_lytics_ == <<"S", "e", "g", "m", "e", "n", "t", " ", "v", "s",
                          " ", "l", "y", "t", "i", "c", "s", " ">>

T_apples_vs_oranges_ == <<"a", "p", "p", "l", "e", "s", " ", "v", "s", " ",
                          "o", "r", "a", "n", "g", "e", "s", " ">>

T_for_tracking == <<"f", "o", "r", " ", "t", "r", "a", "c", "k", "i", "n",
                    "g">>

T_trackingbang == <<"t", "r", "a", "c", "k", "i", "n", "g", "!">>

T_bang_bang == <<"!", " ", "!">>

T_How_do_I_ == <<"H", "o", "w", " ", "d", "o", " ", "I", " ">>

T_steps_to_ == <<"s", "t", "e", "p", "s", " ", "t", "o", " ">>

T_Guide_for_ == <<"G", "u", "i", "d", "e", " ", "f", "o", "r", " ">>

T_what_is_ == <<"w", "h", "a", "t", " ", "i", "s", " ">>

T_set_up_a_source_in_segment == <<"s", "e", "t", " ", "u", "p", " ", "a", " ", "s", "o", "u", "r", "c", "e", " ", "i", "n", " ", "s", "e", "g", "m", "e", "n", "t">>

T_compare_segment_and_mparticle == <<"c", "o", "m", "p", "a", "r", "e", " ", "s", "e", "g", "m", "e", "n", "t", " ", "a", "n", "d", " ", "m", "p", "a", "r", "t", "i", "c", "l", "e">>

T_segment_VERSUS_lytics == <<"s", "e", "g", "m", "e", "n", "t", " ", "V", "E", "R", "S", "U", "S", " ", "l", "y", "t", "i", "c", "s">>

T_pros_and_cons_of_zeotap == <<"p", "r", "o", "s", " ", "a", "n", "d", " ", "c", "o", "n", "s", " ", "o", "f", " ", "z", "e", "o", "t", "a", "p">>

T_events == <<"e", "v", "e", "n", "t", "s">>

T__vs_lytics == <<" ", "v", "s", " ", "l", "y", "t", "i", "c", "s">>

T_qm == <<"?">>

T_how_to_ == <<"h", "o", "w", " ", "t", "o", " ">>

T_Open_settings == <<"O", "p", "e", "n", " ", "s", "e", "t", "t", "i", "n", "g", "s">>

T_Click_add_source == <<"C", "l", "i", "c", "k", " ", "a", "d", "d", " ", "s", "o", "u", "r", "c", "e">>

T_Save == <<"S", "a", "v", "e">>

T_Confirm == <<"C", "o", "n", "f", "i", "r", "m">>

T_message == <<"m", "e", "s", "s", "a", "g", "e">>

T_no_message_here == <<"n", "o", " ", "m", "e", "s", "s", "a", "g", "e", " ", "h", "e", "r", "e">>

T_conv1 == <<"c", "o", "n", "v", "1">>

T_guide == <<"g", "u", "i", "d", "e">>

T_reference == <<"r", "e", "f", "e", "r", "e", "n", "c", "e">>

T_introduction == <<"i", "n", "t", "r", "o", "d", "u", "c", "t", "i", "o", "n">>

T_API_Reference == <<"A", "P", "I", " ", "R", "e", "f", "e", "r", "e", "n", "c", "e">>

T_Overview == <<"O", "v", "e", "r", "v", "i", "e", "w">>

T_Setup == <<"S", "e", "t", "u", "p">>

T_Sources == <<"S", "o", "u", "r", "c", "e", "s">>

T_Open_the_settings_page_nowdot_ ==
    <<"O", "p", "e", "n", " ", "t", "h", "e", " ", "s", "e", "t", "t", "i", "n", "g", "s", " ", "p", "a", "g", "e", " ", "n", "o", "w", ".", " ">>

T_Then_click_the_add_source_buttondot ==
    <<"T", "h", "e", "n", " ", "c", "l", "i", "c", "k", " ", "t", "h", "e", " ", "a", "d", "d", " ", "s", "o", "u", "r", "c", "e", " ", "b", "u", "t", "t", "o", "n", ".">>

T_this_feature == <<"t", "h", "i", "s", " ", "f", "e", "a", "t", "u", "r", "e">>

----------------------------------------------------------------------------
(* ComparisonRetriever._extract_feature_for_comparison                      *)

\* A feature pattern  pre [.+ mid] (.+) : the literal it starts with, whether
\* a ".+" and a middle part follow, the alternatives of the middle part (each
\* with the blanks the pattern puts around it), and its number of capture
\* groups.
Pattern(pre, gap, alts, groups) ==
    [pre |-> pre, gap |-> gap, alts |-> alts, groups |-> groups]

Spaced(word) == T_blank \o word \o T_blank

feature_patterns == <<
    \* r"how does .+ (handle|manage|support|implement|provide) (.+)"
    Pattern(T_how_does_, TRUE,
            <<Spaced(T_handle), Spaced(T_manage), Spaced(T_support),
              Spaced(T_implement), Spaced(T_provide)>>, 2),
    \* r"compare .+ (in terms of|regarding|for) (.+)"
    Pattern(T_compare_, TRUE,
            <<Spaced(T_in_terms_of), Spaced(T_regarding), Spaced(T_for)>>, 2),
    \* r"difference between .+ for (.+)"
    Pattern(T_difference_between_, TRUE, <<Spaced(T_for)>>, 1),
    \* r"which is better for (.+)"
    Pattern(T_which_is_better_for_, FALSE, <<>>, 1),
    \* r"how do .+ compare for (.+)"
    Pattern(T_how_do_, TRUE, <<Spaced(T_compare_for)>>, 1) >>

\* Where the middle part can be matched from i: at j with alternative a, the
\* ".+" before it and the group after it keeping at least one character each
\* ("." is any character but a line break; the inputs hold none).
MidMatches(p, s, i) ==
    {m \in (1..Len(s)) \X (1..Len(p.alts)) :
        /\ m[1] >= i + Len(p.pre) + 1
        /\ IsAt(p.alts[m[2]], s, m[1])
        /\ m[1] + Len(p.alts[m[2]]) <= Len(s)}

MatchesAt(p, s, i) ==
    /\ IsAt(p.pre, s, i)
    /\ IF p.gap THEN MidMatches(p, s, i) # {} ELSE i + Len(p.pre) <= Len(s)

\* the positions re.search can match the pattern from
MatchStarts(p, s) == {i \in 1..Len(s) : MatchesAt(p, s, i)}

Matches(p, s) == MatchStarts(p, s) # {}

\* Where the last group starts in the match from i: the greedy ".+" is as
\* long as it can be, so the middle part is the rightmost one, by the first
\* alternative that matches there.
GroupStart(p, s, i) ==
    IF p.gap
    THEN LET mm == MidMatches(p, s, i)
             j == Greatest({m[1] : m \in mm})
             a == Least({m[2] : m \in {x \in mm : x[1] = j}})
         IN j + Len(p.alts[a])
    ELSE i + Len(p.pre)

\* The text of the last group of re.search(p, s): the leftmost match, the
\* group running to the end of the string.
LastGroup(p, s) == SubSeq(s, GroupStart(p, s, Least(MatchStarts(p, s))), Len(s))

\* match.group(2): the second group, or IndexError("no such group")
Group2(p, s) ==
    IF p.groups >= 2 THEN Some(Strip(LastGroup(p, s)))
    ELSE Raised("IndexError")

\* for pattern in feature_patterns: match = re.search(pattern, query_lower);
\* if match: return match.group(2).strip()
RECURSIVE FirstFeature(_, _)
FirstFeature(s, k) ==
    IF k > Len(feature_patterns) THEN None
    ELSE IF Matches(feature_patterns[k], s) THEN Group2(feature_patterns[k], s)
    ELSE FirstFeature(s, k + 1)

extract_feature_for_comparison(query) == FirstFeature(Lower(query), 1)

----------------------------------------------------------------------------
(* Chunk preparer: split_text_into_chunks                                  *)

MaxSentences == 4
MaxSentenceLen == 4
MaxChunkSize == 6
MaxOverlap == 3

\* A sentence of n characters; the letter tells sentences of different
\* length apart, the tokenizer never yields an empty sentence.
Letter(n) == CASE n = 1 -> "a" [] n = 2 -> "b" [] n = 3 -> "c" [] n = 4 -> "d" [] OTHER -> "e"

Sentence(n) == [i \in 1..n |-> Letter(n)]

SentencePool == {Sentence(n) : n \in 1..MaxSentenceLen}

\* for s in reversed(current_chunk): take s while overlap_size + len(s) <=
\* chunk_overlap, insert at the front, break at the first that does not fit.
\* acc is overlap_sentences, SumLen(acc) is overlap_size.
RECURSIVE OverlapScan(_, _, _, _)
OverlapScan(cur, k, acc, limit) ==
    IF k = 0 THEN acc
    ELSE IF SumLen(acc) + Len(cur[k]) <= limit
         THEN OverlapScan(cur, k - 1, <<cur[k]>> \o acc, limit)
         ELSE acc

overlap_sentences(cur, limit) == OverlapScan(cur, Len(cur), <<>>, limit)

\* if current_size + sentence_size > chunk_size and current_chunk:
MustClose(size, sentence_size, limit, cur) ==
    size + sentence_size > limit /\ cur # <<>>

\* The final flush forgotten: the open chunk is never appended.
LastChunkDropped(cur) == <<>>

\* After the loop: "if current_chunk: chunks.append(...)"; return chunks.
LastChunk(cur) == IF cur # <<>> THEN <<cur>> ELSE <<>>

----------------------------------------------------------------------------
(* ResultRanker (ranker.py)                                                *)

\* re.findall(r'\b\w+\b', s): the maximal runs of word characters, in order
findall_words(s) ==
    LET starts == SelectSeq(Indices(s),
                     LAMBDA k : IsWordChar(s[k]) /\ (k = 1 \/ ~IsWordChar(s[k - 1])))
        ends == SelectSeq(Indices(s),
                   LAMBDA k : IsWordChar(s[k]) /\ (k = Len(s) \/ ~IsWordChar(s[k + 1])))
    IN SubSeq([w \in 1..Len(starts) |-> SubSeq(s, starts[w], ends[w])],
              1, Len(starts))

\* keywords = [kw for kw in keywords if len(kw) > 3]
Keywords(query_lower) == SelectSeq(findall_words(query_lower), LAMBDA kw : Len(kw) > 3)

\* str.count(sub): occurrences that do not overlap, scanned from the left
RECURSIVE CountFrom(_, _, _)
CountFrom(found, size, i) ==
    IF found = <<>> THEN 0
    ELSE IF Head(found) >= i
         THEN 1 + CountFrom(Tail(found), size, Head(found) + size)
         ELSE CountFrom(Tail(found), size, i)

Count(s, sub) ==
    CountFrom(SelectSeq(Indices(s), LAMBDA k : IsAt(sub, s, k)), Len(sub), 1)

\* sum(text.count(kw) for kw in keywords)
RECURSIVE SumCounts(_, _)
SumCounts(text, kws) ==
    IF kws = <<>> THEN 0 ELSE Count(text, Head(kws)) + SumCounts(text, Tail(kws))

\* The cap of the density left out: keyword_density / 5 as it comes.
content_relevance_uncapped(content, query) ==
    LET content_lower == Lower(content)
        keyword_count == SumCounts(content_lower, Keywords(Lower(query)))
        content_word_count == Len(findall_words(content_lower))
    IN IF content_word_count = 0 THEN Rat(0, 1)
       ELSE Rat(keyword_count * 100, content_word_count * 5)

\* _calculate_content_relevance_score
calculate_content_relevance_score(content, query) ==
    LET content_lower == Lower(content)
        keyword_count == SumCounts(content_lower, Keywords(Lower(query)))
        content_word_count == Len(findall_words(content_lower))
    IN IF content_word_count = 0 THEN Rat(0, 1)
       ELSE RMin(Rat(1, 1), Rat(keyword_count * 100, content_word_count * 5))

\* re.search(r'how (to|do|can|should)', query_lower) is not None
IsHowTo(query_lower) ==
    \/ Contains(query_lower, T_how_to)
    \/ Contains(query_lower, T_how_do)
    \/ Contains(query_lower, T_how_can)
    \/ Contains(query_lower, T_how_should)

TypeMatchScore(is_how_to, doc_type) ==
    IF is_how_to /\ doc_type = "how-to" THEN Rat(1, 1)
    ELSE IF ~is_how_to /\ doc_type = "reference" THEN Rat(8, 10)
    ELSE IF doc_type = "overview" THEN Rat(6, 10)
    ELSE Rat(0, 1)

\* for heading in heading_hierarchy: heading_match_count += sum(...)
RECURSIVE HeadingMatchCount(_, _)
HeadingMatchCount(headings, kws) ==
    IF headings = <<>> THEN 0
    ELSE SumCounts(Lower(Head(headings)), kws) + HeadingMatchCount(Tail(headings), kws)

\* _calculate_metadata_relevance_score
calculate_metadata_relevance_score(metadata, query) ==
    LET query_lower == Lower(query)
        keywords == Keywords(query_lower)
        type_match_score == TypeMatchScore(IsHowTo(query_lower), metadata.doc_type)
        title_match_count == SumCounts(Lower(metadata.title), keywords)
        title_match_score ==
            RMin(Rat(1, 1), Rat(title_match_count, Max(1, Len(keywords))))
        heading_match_count == HeadingMatchCount(metadata.heading_hierarchy, keywords)
        heading_match_score ==
            RMin(Rat(1, 1), Rat(heading_match_count, Max(1, Len(keywords) * 2)))
    IN RAdd(RAdd(RMul(Rat(4, 10), type_match_score),
                 RMul(Rat(3, 10), title_match_score)),
            RMul(Rat(3, 10), heading_match_score))

\* A missing distance counted as the worst one instead of the best.
distance_score_none_worst(distance) ==
    IF distance = None THEN Rat(0, 1)
    ELSE RSub(Rat(1, 1), RMin(Rat(1, 1), distance.value))

\* distance_score: 1.0 for None, else 1.0 - min(1.0, distance)
distance_score(distance) ==
    IF distance = None THEN Rat(1, 1)
    ELSE RSub(Rat(1, 1), RMin(Rat(1, 1), distance.value))

\* The weights of the distance and of the content exchanged.
calculate_final_score_content_first(distance, content_score, metadata_score) ==
    RAdd(RAdd(RMul(Rat(3, 10), distance_score(distance)),
              RMul(Rat(5, 10), content_score)),
         RMul(Rat(2, 10), metadata_score))

\* _calculate_final_score
calculate_final_score(distance, content_score, metadata_score) ==
    RAdd(RAdd(RMul(Rat(5, 10), distance_score(distance)),
              RMul(Rat(3, 10), content_score)),
         RMul(Rat(2, 10), metadata_score))

\* scored_result = {**result, content_score, metadata_score, final_score}
Scored(result, query) ==
    LET content_score == calculate_content_relevance_score(result.content, query)
        metadata_score == calculate_metadata_relevance_score(result.metadata, query)
    IN [content |-> result.content, metadata |-> result.metadata, id |-> result.id,
        distance |-> result.distance,
        content_score |-> content_score,
        metadata_score |-> metadata_score,
        final_score |-> calculate_final_score(result.distance, content_score,
                                              metadata_score)]

\* An unstable sort: x goes before the results of equal final_score.
InsertBeforeEqual(sorted, x) ==
    LET before == {i \in 1..Len(sorted) : RLess(x.final_score, sorted[i].final_score)}
        k == Cardinality(before)
    IN SubSeq(sorted, 1, k) \o <<x>> \o SubSeq(sorted, k + 1, Len(sorted))

\* x put into a list sorted by final_score, descending, behind every result
\* whose final_score is not lower (sorted(..., reverse=True) is stable)
InsertDescending(sorted, x) ==
    LET before == {i \in 1..Len(sorted) : RLeq(x.final_score, sorted[i].final_score)}
        k == Cardinality(before)
    IN SubSeq(sorted, 1, k) \o <<x>> \o SubSeq(sorted, k + 1, Len(sorted))

RECURSIVE SortedDescending(_)
SortedDescending(rs) ==
    IF rs = <<>> THEN <<>>
    ELSE InsertDescending(SortedDescending(SubSeq(rs, 1, Len(rs) - 1)), rs[Len(rs)])

\* rank_results
rank_results(results, query) ==
    IF results = <<>> THEN <<>>
    ELSE LET scored_results ==
                 SubSeq([i \in 1..Len(results) |-> Scored(results[i], query)],
                        1, Len(results))
         IN SortedDescending(scored_results)

\* content[:100] is what is hashed
HashedChars == 100

\* hash(content[:100]); the hash is taken to tell different strings apart
ContentHash(content) == SubSeq(content, 1, Min(HashedChars, Len(content)))

\* result.get("final_score", 0) >= threshold, threshold = 0.3
PassesThreshold(result) == RLeq(Rat(3, 10), result.final_score)

\* The redundancy loop keeping the last result of each hash, not the first.
RECURSIVE UniqueLast(_, _, _)
UniqueLast(rs, i, unique) ==
    IF i > Len(rs) THEN unique
    ELSE IF \E j \in (i + 1)..Len(rs) : ContentHash(rs[j].content) = ContentHash(rs[i].content)
         THEN UniqueLast(rs, i + 1, unique)
         ELSE UniqueLast(rs, i + 1, Append(unique, rs[i]))

\* for result in filtered_results: keep it when its content hash is new
RECURSIVE UniqueFrom(_, _, _, _)
UniqueFrom(rs, i, content_hashes, unique_results) ==
    IF i > Len(rs) THEN unique_results
    ELSE IF ContentHash(rs[i].content) \notin content_hashes
         THEN UniqueFrom(rs, i + 1, content_hashes \cup {ContentHash(rs[i].content)},
                         Append(unique_results, rs[i]))
         ELSE UniqueFrom(rs, i + 1, content_hashes, unique_results)

\* The redundancy loop with the last result of each hash kept.
RemoveRedundantKeepLast(rs) == UniqueLast(rs, 1, <<>>)

RemoveRedundant(rs) == UniqueFrom(rs, 1, {}, <<>>)

\* Every unique result put in front of the list, not behind it.
filter_results_newest_first(results) ==
    IF results = <<>> THEN <<>>
    ELSE LET unique_results == RemoveRedundant(SelectSeq(results, PassesThreshold))
         IN SubSeq([i \in 1..Len(unique_results) |->
                       unique_results[Len(unique_results) + 1 - i]],
                   1, Len(unique_results))

\* filter_results
filter_results(results) ==
    IF results = <<>> THEN <<>>
    ELSE RemoveRedundant(SelectSeq(results, PassesThreshold))

----------------------------------------------------------------------------
(* QueryProcessor, DocumentRetriever, ComparisonRetriever: the functions    *)

\* re.sub(r'\s+', ' ', query): every run of white space becomes one blank
CollapseWhiteSpace(s) ==
    LET kept == SelectSeq(Indices(s),
                   LAMBDA k : s[k] \notin WhiteSpace \/ k = 1
                                 \/ s[k - 1] \notin WhiteSpace)
    IN SubSeq([i \in 1..Len(kept) |->
                  IF s[kept[i]] \in WhiteSpace THEN " " ELSE s[kept[i]]],
              1, Len(kept))

\* re.sub(r'[^\w\s\?\.]', '', query)
RemoveSpecial(s) ==
    SelectSeq(s, LAMBDA c : IsWordChar(c) \/ c \in WhiteSpace \/ c \in {"?", "."})

\* _preprocess_query without the strip().
preprocess_query_unstripped(query) == RemoveSpecial(CollapseWhiteSpace(Lower(query)))

\* _preprocess_query: lower, collapse white space and strip, remove specials
preprocess_query(query) == RemoveSpecial(Strip(CollapseWhiteSpace(Lower(query))))

\* process_query line 87: the test that routes to _process_comparison_query
IsComparisonRoute(processed) ==
    \/ Contains(processed, T_compare)
    \/ Contains(processed, T_vs)
    \/ Contains(processed, T_versus)
    \/ Contains(processed, T_difference_between)

cdp_names == <<T_segment, T_mparticle, T_lytics, T_zeotap>>

\* _extract_cdp_from_query: the first name of cdp_names the query contains
extract_cdp_from_query(query) ==
    LET found == SelectSeq(cdp_names, LAMBDA cdp : Contains(Lower(query), cdp))
    IN IF found = <<>> THEN None ELSE Some(Head(found))

\* re.search(r"how does .+ compare", s)
MatchesHowDoesCompare(s) ==
    \E i, j \in 1..Len(s) :
        /\ IsAt(T_how_does_, s, i)
        /\ IsAt(T__compare, s, j)
        /\ j >= i + Len(T_how_does_) + 1

\* The how-to patterns tried before the comparison patterns.
classify_how_to_first(query) ==
    LET query_lower == Lower(query)
    IN IF \/ IsHowTo(query_lower)
          \/ Contains(query_lower, T_steps_to)
          \/ Contains(query_lower, T_guide_for)
          \/ Contains(query_lower, T_tutorial)
          \/ Contains(query_lower, T_instructions_for)
          \/ Contains(query_lower, T_process_of)
       THEN "how-to"
       ELSE IF \/ Contains(query_lower, T_compare)
               \/ Contains(query_lower, T_difference_between)
               \/ Contains(query_lower, T_vs)
               \/ Contains(query_lower, T_versus)
               \/ MatchesHowDoesCompare(query_lower)
               \/ Contains(query_lower, T_which_is_better)
               \/ Contains(query_lower, T_pros_and_cons)
       THEN "comparison"
       ELSE "general"

\* _classify_query_type: comparison patterns first, then how-to patterns
classify_query_type(query) ==
    LET query_lower == Lower(query)
    IN IF \/ Contains(query_lower, T_compare)
          \/ Contains(query_lower, T_difference_between)
          \/ Contains(query_lower, T_vs)
          \/ Contains(query_lower, T_versus)
          \/ MatchesHowDoesCompare(query_lower)
          \/ Contains(query_lower, T_which_is_better)
          \/ Contains(query_lower, T_pros_and_cons)
       THEN "comparison"
       ELSE IF \/ IsHowTo(query_lower)
               \/ Contains(query_lower, T_steps_to)
               \/ Contains(query_lower, T_guide_for)
               \/ Contains(query_lower, T_tutorial)
               \/ Contains(query_lower, T_instructions_for)
               \/ Contains(query_lower, T_process_of)
       THEN "how-to"
       ELSE "general"

relevant_terms ==
    <<T_segment, T_mparticle, T_lytics, T_zeotap, T_cdp,
      T_customer_data_platform, T_data, T_analytics, T_integration,
      T_tracking, T_source, T_destination, T_audience, T_profile,
      T_event, T_user, T_identity, T_segment, T_campaign>>

\* _is_relevant_query
is_relevant_query(query) ==
    \E k \in 1..Len(relevant_terms) : Contains(Lower(query), relevant_terms[k])

\* retrieve lines 136-140
QueryAnalysis(query) ==
    [cdp |-> extract_cdp_from_query(query),
     query_type |-> classify_query_type(query),
     is_relevant |-> is_relevant_query(query)]

\* config.py
TOP_K_RESULTS == 5

SIMILARITY_THRESHOLD == Rat(7, 10)

\* retrieve_for_comparison's default of top_k_per_cdp
top_k_per_cdp == 3

\* The cutoff with <= for <.
IsRelevantResultAtMost(result) ==
    result.distance = None \/ RLeq(result.distance.value, SIMILARITY_THRESHOLD)

\* result.get("distance") is None or result.get("distance") < SIMILARITY_THRESHOLD
IsRelevantResult(result) ==
    result.distance = None \/ RLess(result.distance.value, SIMILARITY_THRESHOLD)

\* relevant_results = [result for result in results if ...]
RelevantResults(answer) == SelectSeq(answer, IsRelevantResult)

\* _extract_cdps_for_comparison
extract_cdps_for_comparison(query) ==
    SelectSeq(cdp_names, LAMBDA cdp : Contains(Lower(query), cdp))

\* The platforms left without a result dropped from the dict.
process_comparison_results_nonempty(by_cdp, query, feature) ==
    LET ranking_query == IF feature # None /\ feature.value # <<>> THEN feature.value
                         ELSE query
        processed ==
            SubSeq([i \in 1..Len(by_cdp) |->
                       [cdp |-> by_cdp[i].cdp,
                        results |-> filter_results(rank_results(by_cdp[i].results,
                                                                ranking_query))]],
                   1, Len(by_cdp))
    IN SelectSeq(processed, LAMBDA entry : entry.results # <<>>)

\* "if feature:" is false for None and for the empty string
Truthy(optional) == optional # None /\ optional.value # <<>>

\* process_comparison_results: every platform's list ranked, then filtered
process_comparison_results(by_cdp, query, feature) ==
    LET ranking_query == IF Truthy(feature) THEN feature.value ELSE query
    IN SubSeq([i \in 1..Len(by_cdp) |->
                  [cdp |-> by_cdp[i].cdp,
                   results |-> filter_results(rank_results(by_cdp[i].results,
                                                           ranking_query))]],
              1, Len(by_cdp))

\* the platform keys of a result dict, in the dict's order
PlatformKeys(by_cdp) == SubSeq([i \in 1..Len(by_cdp) |-> by_cdp[i].cdp], 1, Len(by_cdp))

\* the messages of _process_regular_query and _process_comparison_query
IrrelevantMessage ==
    "I'm sorry, but your question doesn't seem to be related to the CDP platforms I support. I can answer questions about Segment, mParticle, Lytics, and Zeotap."

NoResultsMessage ==
    "I couldn't find information related to your question. Could you try rephrasing or asking a different question about one of the CDP platforms?"

NoComparisonMessage ==
    "I couldn't find enough information to compare the CDP platforms based on your question. Could you try asking a more specific comparison question?"

\* what process_query returns
Response(type, text, query, analysis, found) ==
    Some([type |-> type, message |-> text, query |-> query, analysis |-> analysis,
          results |-> found])

----------------------------------------------------------------------------
(* ResponseGenerator (response_generator.py)                               *)
(*                                                                         *)
(* A text the generator assembles is the sequence of its pieces: each      *)
(* literal of the code and each URL is one piece, kept whole, and the      *)
(* strings of the data (contents, titles, platform names, features) are    *)
(* put between them character by character.                                *)

Digits == {"0", "1", "2", "3", "4", "5", "6", "7", "8", "9"}

\* the number of characters of s from position p on that are in chars
RunLength(s, p, chars) ==
    LET others == {k \in p..Len(s) : s[k] \notin chars}
    IN (IF others = {} THEN Len(s) + 1 ELSE Least(others)) - p

\* \d+\.\s+ or [\*\-]\s+ matched at p: the position behind the match, else 0
MarkerBody(s, p, kind, digits) ==
    IF kind = "numbered"
    THEN IF digits >= 1 /\ p + digits <= Len(s) /\ s[p + digits] = "."
         THEN p + digits + 1 ELSE 0
    ELSE IF p <= Len(s) /\ s[p] \in {"*", "-"} THEN p + 1 ELSE 0

MarkerBlanks(body, blanks) == IF body = 0 \/ blanks = 0 THEN 0 ELSE body + blanks

MarkerTail(s, body) ==
    MarkerBlanks(body, IF body = 0 THEN 0 ELSE RunLength(s, body, WhiteSpace))

MarkerEnd(s, p, kind) == MarkerTail(s, MarkerBody(s, p, kind, RunLength(s, p, Digits)))

\* $ without re.MULTILINE: the end of s, or before a newline that ends s
AtEnd(s, e) == e = Len(s) + 1 \/ (e = Len(s) /\ s[e] = "\n")

\* marker (.*?)(?=marker|$) tried at p: the step is s[from..to-1]; "." does
\* not match a newline, so the match fails when one comes before the end
StepFromTo(s, from, to) ==
    [ok |-> from # 0 /\ \A k \in from..(to - 1) : s[k] # "\n", from |-> from, to |-> to]

StepFrom(s, from, kind) ==
    StepFromTo(s, from,
               Least({e \in from..(Len(s) + 1) :
                         AtEnd(s, e) \/ MarkerEnd(s, e, kind) # 0}))

StepMatch(s, p, kind) == StepFrom(s, MarkerEnd(s, p, kind), kind)

\* re.findall of the step pattern: the matches from p on, left to right
RECURSIVE FindSteps(_, _, _)
FindSteps(s, p, kind) ==
    LET starts == {q \in p..Len(s) : MarkerEnd(s, q, kind) # 0 /\ StepMatch(s, q, kind).ok}
    IN IF starts = {} THEN <<>>
       ELSE LET m == StepMatch(s, Least(starts), kind)
            IN <<SubSeq(s, m.from, m.to - 1)>> \o FindSteps(s, m.to, kind)

\* re.split(r'(?<=[.!?])\s+', content)
SplitSentences(s) ==
    LET seps == SelectSeq(Indices(s),
                   LAMBDA q : q > 1 /\ s[q] \in WhiteSpace /\ s[q - 1] \in {".", "!", "?"})
        n == Len(seps)
    IN SubSeq([i \in 1..(n + 1) |->
                  SubSeq(s,
                         IF i = 1 THEN 1
                         ELSE seps[i - 1] + RunLength(s, seps[i - 1], WhiteSpace),
                         IF i = n + 1 THEN Len(s) ELSE seps[i] - 1)],
              1, n + 1)

Stripped(parts) == SubSeq([i \in 1..Len(parts) |-> Strip(parts[i])], 1, Len(parts))

\* _extract_steps
StepsFound(content, numbered_steps, bullet_steps) ==
    IF numbered_steps # <<>> THEN Stripped(numbered_steps)
    ELSE IF bullet_steps # <<>> THEN Stripped(bullet_steps)
    ELSE SelectSeq(Stripped(SplitSentences(content)), LAMBDA t : Len(t) > 20)

extract_steps(content) ==
    StepsFound(content, FindSteps(content, 1, "numbered"),
               FindSteps(content, 1, "bullet"))

\* str.capitalize()
Capitalize(s) ==
    IF s = <<>> THEN <<>> ELSE <<UpperChar(s[1])>> \o Lower(SubSeq(s, 2, Len(s)))

DecimalDigits == <<"0", "1", "2", "3", "4", "5", "6", "7", "8", "9">>

\* str(n) of a natural number
RECURSIVE Str(_)
Str(n) ==
    IF n < 10 THEN <<DecimalDigits[n + 1]>>
    ELSE Str(n \div 10) \o <<DecimalDigits[(n % 10) + 1]>>

\* _format_source_reference
format_source_reference(metadata) ==
    IF metadata.url # ""
    THEN <<"Source: ">> \o Capitalize(metadata.platform) \o <<" - [">>
            \o metadata.title \o <<"](", metadata.url, ")">>
    ELSE <<"Source: ">> \o Capitalize(metadata.platform) \o <<" - ">> \o metadata.title

\* content[:n] + "..." when len(content) > n
Truncated(content, n) ==
    IF Len(content) > n THEN SubSeq(content, 1, n) \o <<"...">> ELSE content

TextPayload(content) == [type |-> "text", content |-> content]

\* The steps numbered from 0: f"{i}. {step}".
RECURSIVE StepLinesFromZero(_, _)
StepLinesFromZero(steps, i) ==
    IF i > Len(steps) THEN <<>>
    ELSE (IF i = 1 THEN <<>> ELSE <<"\n">>) \o Str(i - 1) \o <<".", " ">> \o steps[i]
            \o StepLinesFromZero(steps, i + 1)

\* "\n".join([f"{i+1}. {step}" for i, step in enumerate(steps)]), from step i
\* on; the lines are spelled out in characters, as a content is
RECURSIVE StepLines(_, _)
StepLines(steps, i) ==
    IF i > Len(steps) THEN <<>>
    ELSE (IF i = 1 THEN <<>> ELSE <<"\n">>) \o Str(i) \o <<".", " ">> \o steps[i]
            \o StepLines(steps, i + 1)

\* lines 146-155: the loop over results[1:3]
RECURSIVE AdditionalInfo(_, _)
AdditionalInfo(more, i) ==
    IF i > Len(more) THEN <<>>
    ELSE <<"**Additional Information ">> \o Str(i) \o <<"**:\n">>
            \o Truncated(more[i].content, 200) \o <<"\n\n">>
            \o format_source_reference(more[i].metadata) \o <<"\n\n">>
            \o AdditionalInfo(more, i + 1)

\* The default of query_response.get("message", default) for the message.
default_message(query_response, default) == default

\* query_response.get("message", default): process_query sets the key in
\* every result of type error, irrelevant and no_results
carried_message(query_response, default) == query_response.message

\* generate_regular_response
\* the answer made of the top result (lines 109-140)
AnswerText(query_type, cdp_name, content, steps) ==
    IF query_type = "how-to"
    THEN IF Len(steps) >= 2
         THEN <<"Here's how to do that in ">> \o cdp_name \o <<":\n\n">>
                 \o StepLines(steps, 1)
         ELSE <<"Here's information on how to do that in ">> \o cdp_name
                 \o <<":\n\n">> \o content
    ELSE <<"Here's information about that from ">> \o cdp_name
            \o <<":\n\n">> \o content

generate_regular_response(query_response) ==
    LET results == query_response.results
        analysis == query_response.analysis
        cdp_name == IF analysis.cdp # None /\ analysis.cdp.value # <<>>
                    THEN Capitalize(analysis.cdp.value) ELSE <<"the CDP">>
        content == results[1].content
        with_source ==
            AnswerText(analysis.query_type, cdp_name, content, extract_steps(content))
               \o <<"\n\n">> \o format_source_reference(results[1].metadata)
    IN IF query_response.type = "error"
       THEN TextPayload(<<carried_message(query_response,
                             "I'm sorry, I couldn't process your question.")>>)
       ELSE IF query_response.type = "irrelevant"
       THEN TextPayload(<<carried_message(query_response,
                             "I'm sorry, but your question doesn't seem to be related to the CDP platforms I support.")>>)
       ELSE IF query_response.type = "no_results"
       THEN TextPayload(<<carried_message(query_response,
                             "I couldn't find information related to your question.")>>)
       ELSE IF results = <<>>
       THEN TextPayload(<<"I couldn't find specific information to answer your question. Could you try rephrasing or asking a different question?">>)
       ELSE TextPayload(
               with_source
                  \o IF Len(results) > 1
                     THEN <<"\n\n">>
                             \o <<"I found some additional information that might be helpful:\n\n">>
                             \o AdditionalInfo(SubSeq(results, 2, Min(3, Len(results))), 1)
                     ELSE <<>>)

\* lines 199-214: one pass of the loop "for cdp, cdp_results in results.items()"
ComparisonSection(entry) ==
    IF entry.results = <<>> THEN <<>>
    ELSE <<"**">> \o Capitalize(entry.cdp) \o <<"**:\n">>
            \o Truncated(entry.results[1].content, 300) \o <<"\n\n">>
            \o format_source_reference(entry.results[1].metadata) \o <<"\n\n">>

\* f"{feature}" of analysis.get("feature", "this feature"): the key is always
\* set, to the feature or to None
FormatFeature(feature) == IF feature = None THEN <<"N", "o", "n", "e">> ELSE feature.value

\* generate_comparison_response
generate_comparison_response(query_response) ==
    LET results == query_response.results
        feature == FormatFeature(query_response.analysis.feature)
        with_results == SelectSeq(results, LAMBDA entry : entry.results # <<>>)
    IN IF query_response.type = "no_results"
       THEN TextPayload(<<carried_message(query_response,
                             "I couldn't find enough information to compare the CDP platforms based on your question.")>>)
       ELSE IF with_results = <<>>
       THEN TextPayload(<<"I couldn't find specific information to compare the CDP platforms based on your question. Could you try asking a more specific comparison question?">>)
       ELSE TextPayload(
               <<"Here's a comparison of how different CDPs handle ">> \o feature
                  \o <<":\n\n">>
                  \o Flatten(SubSeq([i \in 1..Len(results) |-> ComparisonSection(results[i])],
                                    1, Len(results)))
                  \o <<"\n**Summary**:\n", "Each CDP platform has its own approach to ">>
                  \o feature \o <<". ">>
                  \o (IF Len(with_results) >= 2
                      THEN <<"Consider your specific requirements when choosing between them.">>
                      ELSE <<"I could only find detailed information for some of the platforms. Consider checking the official documentation for more details.">>))

\* generate_response
generate_response(query_response) ==
    IF query_response.type = "comparison"
    THEN generate_comparison_response(query_response)
    ELSE generate_regular_response(query_response)

----------------------------------------------------------------------------
(* State machines: each function is called on its own, or inside           *)
(* process_query; the variables of the parts that are not running are idle *)

SplitIdle ==
    /\ sentences = <<>>
    /\ chunk_size = 0
    /\ chunk_overlap = 0
    /\ sent_idx = 0
    /\ current_chunk = <<>>
    /\ current_size = 0
    /\ chunks = <<>>
    /\ chunk_sents = <<>>
    /\ carried = <<>>
    /\ open_carried = 0
    /\ split_pc = "idle"

FeatIdle ==
    /\ feat_query = <<>>
    /\ feat_result = None
    /\ feat_pc = "idle"

RankIdle ==
    /\ rank_input = <<>>
    /\ rank_query = <<>>
    /\ ranked_results = <<>>
    /\ filtered_results = <<>>
    /\ rank_pc = "idle"

QueryIdle ==
    /\ message = <<>>
    /\ processed_query = <<>>
    /\ query_analysis = None
    /\ comparison_query = <<>>
    /\ relevant_results = <<>>
    /\ comparison_results = <<>>
    /\ index_calls = <<>>
    /\ response = None
    /\ query_pc = "idle"

ClassifyIdle ==
    /\ classify_query = <<>>
    /\ classify_result = ""
    /\ classify_pc = "idle"

RespondIdle ==
    /\ respond_input = None
    /\ payload = None
    /\ respond_pc = "idle"

ChatIdle ==
    /\ request = <<>>
    /\ chat_store = <<>>
    /\ pipeline_calls = <<>>
    /\ http_response = None
    /\ chat_pc = "idle"

CallsIdle ==
    /\ store = None
    /\ frames = <<>>
    /\ pcs = <<>>

\* the parts added to the four above
StepsIdle ==
    /\ steps_content = <<>>
    /\ steps_found = None
    /\ steps_pc = "idle"

IndexIdle ==
    /\ raw_documents = <<>>
    /\ index_chunk_size = 0
    /\ index_chunk_overlap = 0
    /\ doc_pos = 0
    /\ all_document_chunks = <<>>
    /\ collection_ids = <<>>
    /\ index_pc = "idle"

MetaIdle ==
    /\ meta_headings = <<>>
    /\ heading_pos = 0
    /\ current_level = 0
    /\ current_hierarchy = <<>>
    /\ meta_hierarchy = <<>>
    /\ meta_pc = "idle"

CrawlIdle ==
    /\ site = <<>>
    /\ max_pages = 0
    /\ urls_to_visit = <<>>
    /\ visited_urls = {}
    /\ page_count = 0
    /\ fetched = <<>>
    /\ saved = <<>>
    /\ crawl_calls = 0
    /\ crawl_pc = "idle"

LaterIdle == StepsIdle /\ IndexIdle /\ MetaIdle /\ CrawlIdle

\* the request pipeline at rest
PipelineIdle ==
    /\ SplitIdle /\ FeatIdle /\ RankIdle /\ QueryIdle
    /\ ClassifyIdle /\ RespondIdle /\ ChatIdle /\ CallsIdle

OthersIdle == ClassifyIdle /\ RespondIdle /\ ChatIdle /\ CallsIdle /\ LaterIdle

----------------------------------------------------------------------------
(* split_text_into_chunks, step by step                                    *)

SplitCall ==
    /\ sentences \in SeqsUpTo(SentencePool, MaxSentences)
    /\ chunk_size \in 1..MaxChunkSize
    /\ chunk_overlap \in 0..MaxOverlap
    /\ sent_idx = 1
    /\ current_chunk = <<>>
    /\ current_size = 0
    /\ chunks = <<>>
    /\ chunk_sents = <<>>
    /\ carried = <<>>
    /\ open_carried = 0
    /\ split_pc = "loop"

\* One iteration of "for sentence in sentences" in which the open chunk is
\* closed first, the overlap is carried over, and the sentence is appended.
SplitCloseAndAppend ==
    /\ split_pc = "loop"
    /\ sent_idx <= Len(sentences)
    /\ LET sentence == sentences[sent_idx]
           ov == overlap_sentences(current_chunk, chunk_overlap)
       IN /\ MustClose(current_size, Len(sentence), chunk_size, current_chunk)
          /\ chunks' = Append(chunks, JoinSpace(current_chunk))
          /\ chunk_sents' = Append(chunk_sents, current_chunk)
          /\ carried' = Append(carried, open_carried)
          /\ open_carried' = Len(ov)
          /\ current_chunk' = Append(ov, sentence)
          /\ current_size' = SumLen(ov) + Len(sentence)
    /\ sent_idx' = sent_idx + 1
    /\ UNCHANGED <<sentences, chunk_size, chunk_overlap, split_pc>>
    /\ UNCHANGED notSplit

\* One iteration in which the sentence is appended to the open chunk.
SplitAppend ==
    /\ split_pc = "loop"
    /\ sent_idx <= Len(sentences)
    /\ LET sentence == sentences[sent_idx]
       IN /\ ~MustClose(current_size, Len(sentence), chunk_size, current_chunk)
          /\ current_chunk' = Append(current_chunk, sentence)
          /\ current_size' = current_size + Len(sentence)
    /\ sent_idx' = sent_idx + 1
    /\ UNCHANGED <<sentences, chunk_size, chunk_overlap, chunks, chunk_sents,
                   carried, open_carried, split_pc>>
    /\ UNCHANGED notSplit

SplitReturn ==
    /\ split_pc = "loop"
    /\ sent_idx > Len(sentences)
    /\ chunk_sents' = chunk_sents \o LastChunk(current_chunk)
    /\ chunks' = chunks \o [i \in 1..Len(LastChunk(current_chunk)) |-> JoinSpace(current_chunk)]
    /\ carried' = carried \o [i \in 1..Len(LastChunk(current_chunk)) |-> open_carried]
    /\ split_pc' = "done"
    /\ UNCHANGED <<sentences, chunk_size, chunk_overlap, sent_idx, current_chunk,
                   current_size, open_carried>>
    /\ UNCHANGED notSplit

SplitInit == SplitCall /\ FeatIdle /\ RankIdle /\ QueryIdle /\ OthersIdle

SplitNext == SplitCloseAndAppend \/ SplitAppend \/ SplitReturn

SpecSplit == SplitInit /\ [][SplitNext]_vars

----------------------------------------------------------------------------
(* _extract_feature_for_comparison, called alone                           *)

MaxFeatureParts == 5

FeatureParts == {T_how_does_, T_how_do_, T_compare_, T_difference_between_,
                 T_which_is_better_, T_handle_, T_for_, T_data_}

FeatCall ==
    /\ feat_query \in {Concat(ps) : ps \in SeqsUpTo(FeatureParts, MaxFeatureParts)}
    /\ feat_result = None
    /\ feat_pc = "call"

ExtractFeature ==
    /\ feat_pc = "call"
    /\ feat_result' = extract_feature_for_comparison(feat_query)
    /\ feat_pc' = "done"
    /\ UNCHANGED feat_query
    /\ UNCHANGED notFeat

FeatInit == FeatCall /\ SplitIdle /\ RankIdle /\ QueryIdle /\ OthersIdle

FeatNext == ExtractFeature

SpecFeature == FeatInit /\ [][FeatNext]_vars

----------------------------------------------------------------------------
(* rank_results, then filter_results on what it returned                   *)

MaxRankResults == 3

Metadata(platform, title, url, heading_hierarchy, doc_type) ==
    [platform |-> platform, title |-> title, url |-> url,
     heading_hierarchy |-> heading_hierarchy, doc_type |-> doc_type]

Doc(id, content, metadata) == [id |-> id, content |-> content, metadata |-> metadata]

\* a result as VectorStore.query formats it
Result(doc, distance) ==
    [content |-> doc.content, metadata |-> doc.metadata, id |-> doc.id,
     distance |-> distance]

\* 104 characters, 21 words
content_guide == Repeat(T_data_, 20) \o T_sync

\* the same first 100 characters, another end
content_api == Repeat(T_data_, 20) \o T_tracking

\* 25 words, one of them a keyword
content_notes == T_tracking \o Repeat(T__x, 24)

segment_0 ==
    Doc("segment_0", content_guide,
        Metadata(T_segment, T_Data_Tracking_Guide, "https://segment.com/docs/guide",
                 <<T_Data_Tracking, T_Data_Tracking_gt_Setup>>, "how-to"))

segment_1 ==
    Doc("segment_1", content_api,
        Metadata(T_segment, T_api, "https://segment.com/docs/api", <<>>, "reference"))

lytics_0 == Doc("lytics_0", content_notes, Metadata(T_lytics, <<>>, "", <<>>, "unknown"))

lytics_1 ==
    Doc("lytics_1", <<>>,
        Metadata(T_lytics, T_overview, "https://docs.lytics.com/", <<T_overview>>,
                 "overview"))

RankDocs == {segment_0, segment_1, lytics_0, lytics_1}

\* distances of the collection: squared L2, never negative
RankDistances == {Rat(0, 1), Rat(2, 5), Rat(3, 2)}

RankPool == {Result(d, Some(dist)) : d \in RankDocs, dist \in RankDistances}

\* the same results, as an answer without distances carries them
WithoutDistances(results) ==
    SubSeq([i \in 1..Len(results) |-> [results[i] EXCEPT !.distance = None]],
           1, Len(results))

\* An answer of the Index has a distance for every result or for none.
RankInputs ==
    LET with_distances == SeqsUpTo(RankPool, MaxRankResults)
    IN with_distances \cup {WithoutDistances(rs) : rs \in with_distances}

RankQueries == {T_how_to_data_tracking, T_api}

RankCall ==
    /\ rank_input \in RankInputs
    /\ rank_query \in RankQueries
    /\ ranked_results = <<>>
    /\ filtered_results = <<>>
    /\ rank_pc = "rank"

RankResults ==
    /\ rank_pc = "rank"
    /\ ranked_results' = rank_results(rank_input, rank_query)
    /\ rank_pc' = "filter"
    /\ UNCHANGED <<rank_input, rank_query, filtered_results>>
    /\ UNCHANGED notRank

FilterResults ==
    /\ rank_pc = "filter"
    /\ filtered_results' = filter_results(ranked_results)
    /\ rank_pc' = "done"
    /\ UNCHANGED <<rank_input, rank_query, ranked_results>>
    /\ UNCHANGED notRank

RankInit == RankCall /\ SplitIdle /\ FeatIdle /\ QueryIdle /\ OthersIdle

RankNext == RankResults \/ FilterResults

SpecRank == RankInit /\ [][RankNext]_vars

----------------------------------------------------------------------------
(* process_query: one request, with the Index as the environment           *)

\* the chunks the Index holds: two of segment, one of lytics, none of the
\* other two platforms
Collection == {segment_0, segment_1, lytics_0}

\* distances below, at and above SIMILARITY_THRESHOLD; a result at 3/5 passes
\* the cutoff and can still score below the threshold of filter_results
IndexDistances == {Rat(3, 10), Rat(3, 5), Rat(7, 10), Rat(9, 10)}

\* What collection.query can give for a where filter and n_results: the
\* nearest matching chunks, nearest first, with their distances or without
\* any; or an exception.
CollectionAnswers(where, n_results) ==
    LET matching == {d \in Collection : where = None \/ d.metadata.platform = where.value}
        k == Min(n_results, Cardinality(matching))
        orders == {ds \in [1..k -> matching] : \A i, j \in 1..k : i # j => ds[i] # ds[j]}
        near_first == {xs \in [1..k -> IndexDistances] :
                          \A i, j \in 1..k : i < j => RLeq(xs[i], xs[j])}
    IN {[raised |-> FALSE,
         documents |-> SubSeq([i \in 1..k |-> Result(ds[i], Some(xs[i]))], 1, k)] :
            ds \in orders, xs \in near_first}
       \cup {[raised |-> FALSE,
              documents |-> SubSeq([i \in 1..k |-> Result(ds[i], None)], 1, k)] :
                 ds \in orders}
       \cup {[raised |-> TRUE, documents |-> <<>>]}

\* VectorStore.query without its try: the exception of the collection leaves it.
vector_store_query_unguarded(answer) ==
    IF answer.raised THEN Raised("Exception") ELSE Some(answer.documents)

\* VectorStore.query: the formatted results; the except clause returns []
\* for whatever the collection raised
vector_store_query(answer) ==
    IF answer.raised THEN Some(<<>>) ELSE Some(answer.documents)

\* the list VectorStore.query returned, if it returned
FormattedResults(answer) ==
    IF vector_store_query(answer).kind = "raise" THEN <<>>
    ELSE vector_store_query(answer).value

IndexCall(query_text, n_results, where, answer) ==
    [query_text |-> query_text, n_results |-> n_results, where |-> where,
     raised |-> answer.raised, returned |-> FormattedResults(answer)]

Leads ==
    {<<>>, T_Compare_, T_difference_between_, T_How_to_use_, T_which_is_better_,
     <<" ", "\t", "\n">>}

Subjects == {<<>>, T_segment_, T_Segment_vs_lytics_, T_apples_vs_oranges_}

Tails == {<<>>, T_for_tracking, T_trackingbang, T_bang_bang}

Messages == {lead \o subject \o tail : lead \in Leads, subject \in Subjects, tail \in Tails}

ProcessQueryCall ==
    /\ message \in Messages
    /\ processed_query = <<>>
    /\ query_analysis = None
    /\ comparison_query = <<>>
    /\ relevant_results = <<>>
    /\ comparison_results = <<>>
    /\ index_calls = <<>>
    /\ response = None
    /\ query_pc = "call"

\* line 75
Preprocess ==
    /\ query_pc = "call"
    /\ processed_query' = preprocess_query(message)
    /\ query_pc' = "route"
    /\ UNCHANGED <<message, query_analysis, comparison_query, relevant_results,
                   comparison_results, index_calls, response>>
    /\ UNCHANGED notQuery

\* lines 78-84
ReturnError ==
    /\ query_pc = "route"
    /\ processed_query = <<>>
    /\ response' = Response("error", "Please provide a valid question.", message,
                            [is_relevant |-> FALSE], <<>>)
    /\ query_pc' = "done"
    /\ UNCHANGED <<message, processed_query, query_analysis, comparison_query,
                   relevant_results, comparison_results, index_calls>>
    /\ UNCHANGED notQuery

\* _process_regular_query of a query that retrieve finds irrelevant: retrieve
\* returns at line 146, _process_regular_query at line 108
RegularIrrelevant ==
    /\ query_pc = "route"
    /\ processed_query # <<>>
    /\ ~IsComparisonRoute(processed_query)
    /\ ~is_relevant_query(processed_query)
    /\ query_analysis' = Some(QueryAnalysis(processed_query))
    /\ response' = Response("irrelevant", IrrelevantMessage,
                            processed_query, QueryAnalysis(processed_query), <<>>)
    /\ query_pc' = "done"
    /\ UNCHANGED <<message, processed_query, comparison_query, relevant_results,
                   comparison_results, index_calls>>
    /\ UNCHANGED notQuery

\* _process_regular_query of a relevant query: retrieve queries the Index and
\* cuts the answer off; what is left is ranked and filtered
RegularRetrieve ==
    /\ query_pc = "route"
    /\ processed_query # <<>>
    /\ ~IsComparisonRoute(processed_query)
    /\ is_relevant_query(processed_query)
    /\ LET analysis == QueryAnalysis(processed_query)
           filter_dict == analysis.cdp
       IN \E answer \in CollectionAnswers(filter_dict, TOP_K_RESULTS) :
             LET kept == RelevantResults(FormattedResults(answer))
             IN /\ index_calls' = Append(index_calls,
                                         IndexCall(processed_query, TOP_K_RESULTS,
                                                   filter_dict, answer))
                /\ relevant_results' = kept
                /\ query_analysis' = Some(analysis)
                /\ response' =
                      IF vector_store_query(answer).kind = "raise"
                      THEN vector_store_query(answer)
                      ELSE IF kept = <<>>
                      THEN Response("no_results", NoResultsMessage,
                                    processed_query, analysis, <<>>)
                      ELSE Response("answer", "", processed_query, analysis,
                                    filter_results(rank_results(kept, processed_query)))
    /\ query_pc' = "done"
    /\ UNCHANGED <<message, processed_query, comparison_query, comparison_results>>
    /\ UNCHANGED notQuery

\* retrieve_for_comparison up to its loop, when the feature extraction
\* raises: the exception leaves process_query
ComparisonRaise ==
    /\ query_pc = "route"
    /\ processed_query # <<>>
    /\ IsComparisonRoute(processed_query)
    /\ extract_feature_for_comparison(processed_query).kind = "raise"
    /\ response' = extract_feature_for_comparison(processed_query)
    /\ query_pc' = "done"
    /\ UNCHANGED <<message, processed_query, query_analysis, comparison_query,
                   relevant_results, comparison_results, index_calls>>
    /\ UNCHANGED notQuery

\* retrieve_for_comparison up to its loop (lines 256-281)
ComparisonBegin ==
    /\ query_pc = "route"
    /\ processed_query # <<>>
    /\ IsComparisonRoute(processed_query)
    /\ LET mentioned == extract_cdps_for_comparison(processed_query)
           feature == extract_feature_for_comparison(processed_query)
       IN /\ feature.kind # "raise"
          /\ query_analysis' =
                Some([cdps |-> IF mentioned = <<>> THEN cdp_names ELSE mentioned,
                      feature |-> feature,
                      query_type |-> "comparison"])
          /\ comparison_query' = IF Truthy(feature) THEN feature.value
                                 ELSE processed_query
    /\ query_pc' = "compare"
    /\ UNCHANGED <<message, processed_query, relevant_results, comparison_results,
                   index_calls, response>>
    /\ UNCHANGED notQuery

\* one iteration of "for cdp in cdps" (lines 283-298); an exception that left
\* vector_store.query would leave process_query
ComparisonQuery ==
    /\ query_pc = "compare"
    /\ Len(comparison_results) < Len(query_analysis.value.cdps)
    /\ LET cdp == query_analysis.value.cdps[Len(comparison_results) + 1]
       IN \E answer \in CollectionAnswers(Some(cdp), top_k_per_cdp) :
             /\ index_calls' = Append(index_calls,
                                      IndexCall(comparison_query, top_k_per_cdp,
                                                Some(cdp), answer))
             /\ IF vector_store_query(answer).kind = "raise"
                THEN /\ response' = vector_store_query(answer)
                     /\ query_pc' = "done"
                     /\ UNCHANGED comparison_results
                ELSE /\ comparison_results' =
                           Append(comparison_results,
                                  [cdp |-> cdp,
                                   results |-> RelevantResults(FormattedResults(answer))])
                     /\ UNCHANGED <<response, query_pc>>
    /\ UNCHANGED <<message, processed_query, query_analysis, comparison_query,
                   relevant_results>>
    /\ UNCHANGED notQuery

\* after the loop: _process_comparison_query lines 153-177
ComparisonRespond ==
    /\ query_pc = "compare"
    /\ Len(comparison_results) = Len(query_analysis.value.cdps)
    /\ response' =
          IF \A i \in 1..Len(comparison_results) : comparison_results[i].results = <<>>
          THEN Response("no_results", NoComparisonMessage,
                        processed_query, query_analysis.value, <<>>)
          ELSE Response("comparison", "", processed_query, query_analysis.value,
                        process_comparison_results(comparison_results, processed_query,
                                                   query_analysis.value.feature))
    /\ query_pc' = "done"
    /\ UNCHANGED <<message, processed_query, query_analysis, comparison_query,
                   relevant_results, comparison_results, index_calls>>
    /\ UNCHANGED notQuery

QueryInit == ProcessQueryCall /\ SplitIdle /\ FeatIdle /\ RankIdle /\ OthersIdle

QueryNext ==
    \/ Preprocess
    \/ ReturnError
    \/ RegularIrrelevant
    \/ RegularRetrieve
    \/ ComparisonRaise
    \/ ComparisonBegin
    \/ ComparisonQuery
    \/ ComparisonRespond

SpecQuery == QueryInit /\ [][QueryNext]_vars

----------------------------------------------------------------------------
(* _classify_query_type, called alone                                      *)

ClassifyLeads == {<<>>, T_How_do_I_, T_how_to_, T_steps_to_, T_Guide_for_, T_what_is_}

ClassifySubjects ==
    {<<>>, T_set_up_a_source_in_segment, T_compare_segment_and_mparticle,
     T_segment_VERSUS_lytics, T_pros_and_cons_of_zeotap, T_which_is_better,
     T_tutorial, T_events}

ClassifyTails == {<<>>, T__vs_lytics, T_qm}

ClassifyQueries ==
    {lead \o subject \o tail :
        lead \in ClassifyLeads, subject \in ClassifySubjects, tail \in ClassifyTails}

ClassifyCall ==
    /\ classify_query \in ClassifyQueries
    /\ classify_result = ""
    /\ classify_pc = "call"

ClassifyQueryType ==
    /\ classify_pc = "call"
    /\ classify_result' = classify_query_type(classify_query)
    /\ classify_pc' = "done"
    /\ UNCHANGED classify_query
    /\ UNCHANGED notClassify

ClassifyInit ==
    /\ ClassifyCall
    /\ SplitIdle /\ FeatIdle /\ RankIdle /\ QueryIdle
    /\ RespondIdle /\ ChatIdle /\ CallsIdle /\ LaterIdle

ClassifyNext == ClassifyQueryType

SpecClassify == ClassifyInit /\ [][ClassifyNext]_vars

----------------------------------------------------------------------------
(* generate_response, called on the results process_query can return       *)

MaxSteps == 3

\* the texts of the steps of a guide
StepTexts == <<T_Open_settings, T_Click_add_source, T_Save, T_Confirm>>

\* the first n steps, numbered from 1 and joined by the separator
RECURSIVE NumberedContent(_, _, _)
NumberedContent(n, separator, i) ==
    IF i > n THEN <<>>
    ELSE (IF i = 1 THEN <<>> ELSE separator) \o Str(i) \o <<".", " ">> \o StepTexts[i]
            \o NumberedContent(n, separator, i + 1)

StepSeparators == {<<" ">>, <<"\n">>}

steps_doc(n, separator) ==
    Doc("segment_steps", NumberedContent(n, separator, 1),
        Metadata(T_segment, T_Data_Tracking_Guide, "https://segment.com/docs/guide",
                 <<T_Data_Tracking>>, "how-to"))

\* 301 characters
segment_long ==
    Doc("segment_long", Repeat(T_data_, 60) \o <<"x">>,
        Metadata(T_segment, T_overview, "https://segment.com/docs/", <<>>, "overview"))

TopDocs ==
    {steps_doc(n, separator) : n \in 1..MaxSteps, separator \in StepSeparators}
       \cup {segment_0, segment_long, lytics_0}

MoreResults ==
    {<<>>, <<Result(segment_1, None)>>, <<Result(segment_long, None), Result(lytics_0, None)>>,
     <<Result(segment_1, None), Result(segment_long, None), Result(lytics_0, None)>>}

RegularAnalyses ==
    {[cdp |-> cdp, query_type |-> query_type, is_relevant |-> TRUE] :
        cdp \in {None, Some(T_segment)}, query_type \in {"how-to", "general"}}

AnswerResponses ==
    {Response("answer", "", T_how_to_data_tracking, analysis,
              <<Result(top, None)>> \o more).value :
        top \in TopDocs, more \in MoreResults, analysis \in RegularAnalyses}
       \cup {Response("answer", "", T_how_to_data_tracking, analysis, <<>>).value :
                analysis \in RegularAnalyses}

\* the lists a platform can have in a processed comparison
PlatformLists(cdp) ==
    {<<>>} \cup {<<Result(d, None)>> :
                    d \in {x \in {segment_0, segment_long, lytics_0} : x.metadata.platform = cdp}}

ComparisonAnalysis(cdps, feature) ==
    [cdps |-> cdps, feature |-> feature, query_type |-> "comparison"]

\* the dicts over the platforms cdps, in that order
RECURSIVE ComparisonDicts(_)
ComparisonDicts(cdps) ==
    IF cdps = <<>> THEN {<<>>}
    ELSE {<<[cdp |-> Head(cdps), results |-> found]>> \o rest :
             found \in PlatformLists(Head(cdps)), rest \in ComparisonDicts(Tail(cdps))}

\* the platform lists retrieve_for_comparison can compare over
ComparedLists == {<<T_segment, T_lytics>>, <<T_lytics, T_segment>>, cdp_names}

ComparisonResponses ==
    {Response("comparison", "", T_compare_for,
              ComparisonAnalysis(PlatformKeys(by_cdp), feature), by_cdp).value :
        feature \in {None, Some(T_tracking)},
        by_cdp \in UNION {ComparisonDicts(cdps) : cdps \in ComparedLists}}

OtherResponses ==
    {Response("error", "Please provide a valid question.", <<" ">>,
              [is_relevant |-> FALSE], <<>>).value,
     Response("irrelevant", IrrelevantMessage, T_events,
              [cdp |-> None, query_type |-> "general", is_relevant |-> FALSE], <<>>).value,
     Response("no_results", NoResultsMessage, T_tracking,
              [cdp |-> None, query_type |-> "general", is_relevant |-> TRUE], <<>>).value,
     Response("no_results", NoComparisonMessage, T_compare_for,
              ComparisonAnalysis(cdp_names, None), <<>>).value}

QueryResponses == AnswerResponses \cup ComparisonResponses \cup OtherResponses

GenerateResponseCall ==
    /\ respond_input \in QueryResponses
    /\ payload = None
    /\ respond_pc = "call"

GenerateResponse ==
    /\ respond_pc = "call"
    /\ payload' = Some(generate_response(respond_input))
    /\ respond_pc' = "done"
    /\ UNCHANGED respond_input
    /\ UNCHANGED notRespond

RespondInit ==
    /\ GenerateResponseCall
    /\ SplitIdle /\ FeatIdle /\ RankIdle /\ QueryIdle
    /\ ClassifyIdle /\ ChatIdle /\ CallsIdle /\ LaterIdle

RespondNext == GenerateResponse

SpecRespond == RespondInit /\ [][RespondNext]_vars

----------------------------------------------------------------------------
(* process_query as one call on an Index that answers the same question the *)
(* same way: the chunks it holds, nearest first, or an Index that is down   *)

Store(entries, down) == [entries |-> entries, down |-> down]

\* an Index of three chunks
IndexUp ==
    Store(<<Result(segment_0, Some(Rat(3, 10))), Result(lytics_0, Some(Rat(3, 5))),
            Result(segment_1, Some(Rat(9, 10)))>>, FALSE)

\* an Index whose query raises
IndexDown == Store(<<Result(segment_0, Some(Rat(3, 10)))>>, TRUE)

Stores == {IndexUp, Store(<<Result(lytics_0, None)>>, FALSE), IndexDown}

\* collection.query(query_texts=[query_text], n_results=n_results, where=where)
StoreAnswer(st, query_text, n_results, where) ==
    LET matching == SelectSeq(st.entries,
                              LAMBDA r : where = None \/ r.metadata.platform = where.value)
    IN IF st.down THEN [raised |-> TRUE, documents |-> <<>>]
       ELSE [raised |-> FALSE,
             documents |-> SubSeq(matching, 1, Min(n_results, Len(matching)))]

\* DocumentRetriever.retrieve
retrieve(st, query) ==
    LET analysis == QueryAnalysis(query)
    IN IF ~analysis.is_relevant THEN [results |-> <<>>, analysis |-> analysis]
       ELSE [results |->
                RelevantResults(FormattedResults(
                    StoreAnswer(st, query, TOP_K_RESULTS, analysis.cdp))),
             analysis |-> analysis]

\* QueryProcessor._process_regular_query
process_regular_query(st, query) ==
    LET retrieved == retrieve(st, query)
    IN IF ~retrieved.analysis.is_relevant
       THEN Response("irrelevant", IrrelevantMessage, query,
                     retrieved.analysis, <<>>)
       ELSE IF retrieved.results = <<>>
       THEN Response("no_results", NoResultsMessage, query,
                     retrieved.analysis, <<>>)
       ELSE Response("answer", "", query, retrieved.analysis,
                     filter_results(rank_results(retrieved.results, query)))

\* ComparisonRetriever.retrieve_for_comparison: its two results, or the
\* exception of the feature extraction
retrieve_for_comparison(st, query) ==
    LET mentioned == extract_cdps_for_comparison(query)
        feature == extract_feature_for_comparison(query)
        cdps == IF mentioned = <<>> THEN cdp_names ELSE mentioned
        comparison_text == IF Truthy(feature) THEN feature.value ELSE query
    IN IF feature.kind = "raise" THEN feature
       ELSE Some([results |->
                     SubSeq([i \in 1..Len(cdps) |->
                                [cdp |-> cdps[i],
                                 results |->
                                    RelevantResults(FormattedResults(
                                        StoreAnswer(st, comparison_text, top_k_per_cdp,
                                                    Some(cdps[i]))))]],
                            1, Len(cdps)),
                  analysis |-> [cdps |-> cdps, feature |-> feature,
                                query_type |-> "comparison"]])

\* QueryProcessor._process_comparison_query
process_comparison_query(st, query) ==
    LET retrieved == retrieve_for_comparison(st, query)
        by_cdp == retrieved.value.results
    IN IF retrieved.kind = "raise" THEN retrieved
       ELSE IF \A i \in 1..Len(by_cdp) : by_cdp[i].results = <<>>
       THEN Response("no_results", NoComparisonMessage,
                     query, retrieved.value.analysis, <<>>)
       ELSE Response("comparison", "", query, retrieved.value.analysis,
                     process_comparison_results(by_cdp, query,
                                                retrieved.value.analysis.feature))

\* QueryProcessor.process_query
process_query(st, query) ==
    LET processed == preprocess_query(query)
    IN IF processed = <<>>
       THEN Response("error", "Please provide a valid question.", query,
                     [is_relevant |-> FALSE], <<>>)
       ELSE IF IsComparisonRoute(processed) THEN process_comparison_query(st, processed)
       ELSE process_regular_query(st, processed)

----------------------------------------------------------------------------
(* POST /api/chat (routes.py)                                              *)

\* What request.json gives: it raises (readable is FALSE), or it is the JSON
\* value of the body, null, a number, a string, a list of strings or an
\* object that may hold the keys message and conversation_id.
Body(json, zero, text, items, has_message, message_value, conversation_id) ==
    [readable |-> TRUE, json |-> json, zero |-> zero, text |-> text, items |-> items,
     has_message |-> has_message, message |-> message_value,
     conversation_id |-> conversation_id]

\* a value of the key message: a string, a number or null
MessageValue(json, text) == [json |-> json, text |-> text]

NoValue == MessageValue("null", <<>>)

Scalar(json, zero, text, items) == Body(json, zero, text, items, FALSE, NoValue, None)

Unreadable == [Scalar("null", FALSE, <<>>, <<>>) EXCEPT !.readable = FALSE]

ChatMessages ==
    {<<>>, T_How_to_use_ \o T_segment_, T_Compare_ \o T_Segment_vs_lytics_,
     T_difference_between_ \o T_segment_ \o T_for_tracking, T_events}

MessageValues ==
    {MessageValue("string", m) : m \in ChatMessages}
       \cup {MessageValue("number", <<>>), NoValue}

Requests ==
    {Unreadable,
     Scalar("null", FALSE, <<>>, <<>>),
     Scalar("number", TRUE, <<>>, <<>>),
     Scalar("number", FALSE, <<>>, <<>>),
     Scalar("string", FALSE, <<>>, <<>>),
     Scalar("string", FALSE, T_events, <<>>),
     Scalar("string", FALSE, T_no_message_here, <<>>),
     Scalar("list", FALSE, <<>>, <<>>),
     Scalar("list", FALSE, <<>>, <<T_events>>),
     Scalar("list", FALSE, <<>>, <<T_message>>)}
       \cup {Body("object", FALSE, <<>>, <<>>, FALSE, NoValue, conversation_id) :
                conversation_id \in {None, Some(T_conv1)}}
       \cup {Body("object", FALSE, <<>>, <<>>, TRUE, value, conversation_id) :
                value \in MessageValues, conversation_id \in {None, Some(T_conv1)}}

\* "not data"
IsFalsy(data) ==
    \/ data.json = "null"
    \/ data.json = "number" /\ data.zero
    \/ data.json = "string" /\ data.text = <<>>
    \/ data.json = "list" /\ data.items = <<>>
    \/ data.json = "object" /\ ~data.has_message /\ data.conversation_id = None

\* "message" in data: a key of an object, a substring of a string, an element
\* of a list; a TypeError for a number
MessageIn(data) ==
    IF data.json = "number" THEN Raised("TypeError")
    ELSE Some(\/ data.json = "object" /\ data.has_message
              \/ data.json = "string" /\ Contains(data.text, T_message)
              \/ data.json = "list" /\ \E k \in 1..Len(data.items) : data.items[k] = T_message)

\* hash(f"{conversation_id}_{user_message}"): the hash of a str differs from
\* one process to the next
MessageIds == {"hash_a", "hash_b"}

Reply(status, body, calls) == [status |-> status, body |-> body, calls |-> calls]

BadRequest == Reply(400, [error |-> "Invalid request. 'message' field is required."], <<>>)

ServerError(calls) ==
    Reply(500, [error |-> "An error occurred while processing your message."], calls)

\* the view function chat: status and body of the reply, and the calls of
\* process_query it made
chat(data, st, message_id) ==
    IF ~data.readable THEN ServerError(<<>>)
    ELSE IF IsFalsy(data) THEN BadRequest
    ELSE IF MessageIn(data).kind = "raise" THEN ServerError(<<>>)
    ELSE IF ~MessageIn(data).value THEN BadRequest
    ELSE IF data.json # "object" THEN ServerError(<<>>)
    ELSE IF data.message.json # "string" THEN ServerError(<<data.message>>)
    ELSE IF process_query(st, data.message.text).kind = "raise"
    THEN ServerError(<<data.message>>)
    ELSE Reply(200,
               [response |-> generate_response(process_query(st, data.message.text).value),
                conversation_id |-> data.conversation_id,
                message_id |-> message_id],
               <<data.message>>)

ChatCall ==
    /\ request \in Requests
    /\ chat_store \in Stores
    /\ pipeline_calls = <<>>
    /\ http_response = None
    /\ chat_pc = "call"

Chat ==
    /\ chat_pc = "call"
    /\ \E message_id \in MessageIds :
          /\ http_response' = Some([status |-> chat(request, chat_store, message_id).status,
                                     body |-> chat(request, chat_store, message_id).body])
          /\ pipeline_calls' = chat(request, chat_store, message_id).calls
    /\ chat_pc' = "done"
    /\ UNCHANGED <<request, chat_store>>
    /\ UNCHANGED notChat

ChatInit ==
    /\ ChatCall
    /\ SplitIdle /\ FeatIdle /\ RankIdle /\ QueryIdle
    /\ ClassifyIdle /\ RespondIdle /\ CallsIdle /\ LaterIdle

ChatNext == Chat

SpecChat == ChatInit /\ [][ChatNext]_vars

----------------------------------------------------------------------------
(* Calls of process_query and generate_response in flight at once, as the   *)
(* threads of the server make them: one QueryProcessor, one Index.  The     *)
(* QueryProcessor holds its four collaborators and nothing else (lines      *)
(* 38-41); what a call computes is in its own local variables.              *)

MaxCalls == 2

CallIds == 1..MaxCalls

CallMessages ==
    {<<" ", "\t", "\n">>,
     T_How_to_use_ \o T_segment_ \o T_for_tracking,
     T_Compare_ \o T_Segment_vs_lytics_ \o T_for_tracking,
     T_Compare_ \o T_trackingbang,
     T_difference_between_ \o T_segment_ \o T_for_tracking}

\* the local variables of one call, before any is assigned
NewFrame ==
    [processed_query |-> <<>>, query_analysis |-> None, comparison_query |-> <<>>,
     comparison_results |-> <<>>]

\* all calls read the one frame, as they would if the locals were attributes
\* of the QueryProcessor
SharedFrame(t) == 1

\* the frame holding the local variables of call t: its own
Frame(t) == t

Locals(t) == frames[Frame(t)]

\* the call returns (or raises) result: generate_response is next unless it
\* raised
Returned(t, result) ==
    [pcs EXCEPT ![t].response = result,
                ![t].at = IF result.kind = "raise" THEN "done" ELSE "respond"]

ConcurrentCalls ==
    /\ store \in {IndexUp, IndexDown}
    /\ pcs \in [CallIds -> {[at |-> "call", message |-> m, response |-> None,
                             payload |-> None] : m \in CallMessages}]
    /\ frames = [t \in CallIds |-> NewFrame]

\* line 75
CallPreprocess(t) ==
    /\ pcs[t].at = "call"
    /\ frames' = [frames EXCEPT ![Frame(t)].processed_query =
                                    preprocess_query(pcs[t].message)]
    /\ pcs' = [pcs EXCEPT ![t].at = "route"]
    /\ UNCHANGED store
    /\ UNCHANGED notCalls

\* lines 78-84
CallReturnError(t) ==
    /\ pcs[t].at = "route"
    /\ Locals(t).processed_query = <<>>
    /\ pcs' = Returned(t, Response("error", "Please provide a valid question.",
                                   pcs[t].message, [is_relevant |-> FALSE], <<>>))
    /\ UNCHANGED <<store, frames>>
    /\ UNCHANGED notCalls

\* lines 87, 91: _process_regular_query, with its one query of the Index
CallRegular(t) ==
    /\ pcs[t].at = "route"
    /\ Locals(t).processed_query # <<>>
    /\ ~IsComparisonRoute(Locals(t).processed_query)
    /\ pcs' = Returned(t, process_regular_query(store, Locals(t).processed_query))
    /\ UNCHANGED <<store, frames>>
    /\ UNCHANGED notCalls

\* lines 87-89: retrieve_for_comparison up to its loop (retriever.py lines
\* 256-281); an exception of the feature extraction leaves process_query
CallComparisonBegin(t) ==
    /\ pcs[t].at = "route"
    /\ Locals(t).processed_query # <<>>
    /\ IsComparisonRoute(Locals(t).processed_query)
    /\ LET mentioned == extract_cdps_for_comparison(Locals(t).processed_query)
           feature == extract_feature_for_comparison(Locals(t).processed_query)
       IN IF feature.kind = "raise"
          THEN /\ pcs' = Returned(t, feature)
               /\ UNCHANGED frames
          ELSE /\ frames' =
                     [frames EXCEPT
                         ![Frame(t)].query_analysis =
                             Some([cdps |-> IF mentioned = <<>> THEN cdp_names
                                            ELSE mentioned,
                                   feature |-> feature,
                                   query_type |-> "comparison"]),
                         ![Frame(t)].comparison_query =
                             IF Truthy(feature) THEN feature.value
                             ELSE Locals(t).processed_query,
                         ![Frame(t)].comparison_results = <<>>]
               /\ pcs' = [pcs EXCEPT ![t].at = "compare"]
    /\ UNCHANGED store
    /\ UNCHANGED notCalls

\* one iteration of "for cdp in cdps" (retriever.py lines 283-298): one query
\* of the Index
CallComparisonQuery(t) ==
    /\ pcs[t].at = "compare"
    /\ Locals(t).query_analysis.kind = "value"
    /\ Len(Locals(t).comparison_results) < Len(Locals(t).query_analysis.value.cdps)
    /\ LET cdp == Locals(t).query_analysis.value.cdps[
                      Len(Locals(t).comparison_results) + 1]
           kept == RelevantResults(FormattedResults(
                       StoreAnswer(store, Locals(t).comparison_query, top_k_per_cdp,
                                   Some(cdp))))
       IN frames' = [frames EXCEPT ![Frame(t)].comparison_results =
                                       Append(@, [cdp |-> cdp, results |-> kept])]
    /\ UNCHANGED <<store, pcs>>
    /\ UNCHANGED notCalls

\* after the loop: _process_comparison_query lines 153-177
CallComparisonRespond(t) ==
    /\ pcs[t].at = "compare"
    /\ Locals(t).query_analysis.kind = "value"
    /\ Len(Locals(t).comparison_results) >= Len(Locals(t).query_analysis.value.cdps)
    /\ LET by_cdp == Locals(t).comparison_results
           analysis == Locals(t).query_analysis.value
       IN pcs' = Returned(t,
                    IF \A i \in 1..Len(by_cdp) : by_cdp[i].results = <<>>
                    THEN Response("no_results", NoComparisonMessage,
                                  Locals(t).processed_query, analysis, <<>>)
                    ELSE Response("comparison", "", Locals(t).processed_query, analysis,
                                  process_comparison_results(by_cdp,
                                      Locals(t).processed_query, analysis.feature)))
    /\ UNCHANGED <<store, frames>>
    /\ UNCHANGED notCalls

\* routes.py line 78: generate_response on what process_query returned
CallGenerateResponse(t) ==
    /\ pcs[t].at = "respond"
    /\ pcs' = [pcs EXCEPT ![t].payload = Some(generate_response(pcs[t].response.value)),
                          ![t].at = "done"]
    /\ UNCHANGED <<store, frames>>
    /\ UNCHANGED notCalls

CallsInit ==
    /\ ConcurrentCalls
    /\ SplitIdle /\ FeatIdle /\ RankIdle /\ QueryIdle
    /\ ClassifyIdle /\ RespondIdle /\ ChatIdle /\ LaterIdle

CallsNext ==
    \E t \in CallIds :
        \/ CallPreprocess(t)
        \/ CallReturnError(t)
        \/ CallRegular(t)
        \/ CallComparisonBegin(t)
        \/ CallComparisonQuery(t)
        \/ CallComparisonRespond(t)
        \/ CallGenerateResponse(t)

SpecCalls == CallsInit /\ [][CallsNext]_vars

----------------------------------------------------------------------------
(* _extract_steps, called alone                                            *)

MaxContentLen == 4

StepChars == {"1", ".", " ", "a", "-"}

two_sentences == T_Open_the_settings_page_nowdot_ \o T_Then_click_the_add_source_buttondot

\* short contents of every shape, and contents with sentences of more than 20
\* characters behind no marker, one numbered marker and one bullet
StepContents ==
    SeqsUpTo(StepChars, MaxContentLen)
       \cup {two_sentences, <<"1", ".", " ">> \o two_sentences,
             <<"-", " ">> \o two_sentences,
             NumberedContent(2, <<" ">>, 1), NumberedContent(3, <<"\n">>, 1)}

ExtractStepsCall ==
    /\ steps_content \in StepContents
    /\ steps_found = None
    /\ steps_pc = "call"

ExtractSteps ==
    /\ steps_pc = "call"
    /\ steps_found' = Some(extract_steps(steps_content))
    /\ steps_pc' = "done"
    /\ UNCHANGED steps_content
    /\ UNCHANGED notSteps

StepsInit == ExtractStepsCall /\ PipelineIdle /\ IndexIdle /\ MetaIdle /\ CrawlIdle

StepsNext == ExtractSteps

SpecSteps == StepsInit /\ [][StepsNext]_vars

----------------------------------------------------------------------------
(* Chunk preparer: extract_metadata and prepare_document_chunks             *)
(* (processors.py)                                                         *)

\* s[:n]
Slice(s, n) ==
    IF n >= 0 THEN SubSeq(s, 1, Min(n, Len(s))) ELSE SubSeq(s, 1, Max(Len(s) + n, 0))

\* " > ".join(parts)
RECURSIVE JoinArrow(_)
JoinArrow(parts) ==
    IF parts = <<>> THEN <<>>
    ELSE IF Len(parts) = 1 THEN Head(parts)
    ELSE Head(parts) \o <<" ", ">", " ">> \o JoinArrow(Tail(parts))

Heading(level, text) == [level |-> level, text |-> text]

\* the stack is cut one entry too late
reset_hierarchy_to_level(current, level, before) ==
    IF level <= before THEN Slice(current, level) ELSE current

\* lines 131-133: if level <= current_level:
\*                    current_hierarchy = current_hierarchy[:level-1]
reset_hierarchy(current, level, before) ==
    IF level <= before THEN Slice(current, level - 1) ELSE current

\* lines 135-137 behind them: the stack with the heading's text pushed
push_heading(current, heading, before) ==
    Append(reset_hierarchy(current, heading.level, before), heading.text)

\* the loop of lines 127-137 from heading k on: heading_hierarchy
RECURSIVE HierarchyFrom(_, _, _, _, _)
HierarchyFrom(hs, k, before, current, built) ==
    IF k > Len(hs) THEN built
    ELSE HierarchyFrom(hs, k + 1, hs[k].level, push_heading(current, hs[k], before),
                       Append(built, JoinArrow(push_heading(current, hs[k], before))))

\* lines 139-146
doc_type_of(title) ==
    IF Contains(Lower(title), T_how_to) \/ Contains(Lower(title), T_guide)
    THEN "how-to"
    ELSE IF Contains(Lower(title), T_api) \/ Contains(Lower(title), T_reference)
    THEN "reference"
    ELSE IF Contains(Lower(title), T_overview) \/ Contains(Lower(title), T_introduction)
    THEN "overview"
    ELSE "unknown"

\* a document as the scraper saves it; sentences is what nltk.sent_tokenize
\* gives for its content
Document(platform, title, url, hs, sents) ==
    [platform |-> platform, title |-> title, url |-> url, headings |-> hs,
     sentences |-> sents]

extract_metadata(data) ==
    Metadata(data.platform, data.title, data.url,
             HierarchyFrom(data.headings, 1, 0, <<>>, <<>>), doc_type_of(data.title))

\* split_text_into_chunks as one call: the loop from sentence k on
RECURSIVE SplitFrom(_, _, _, _, _, _, _)
SplitFrom(sents, k, current, size, closed, limit, overlap) ==
    IF k > Len(sents)
    THEN closed \o [i \in 1..Len(LastChunk(current)) |-> JoinSpace(current)]
    ELSE IF MustClose(size, Len(sents[k]), limit, current)
    THEN SplitFrom(sents, k + 1, Append(overlap_sentences(current, overlap), sents[k]),
                   SumLen(overlap_sentences(current, overlap)) + Len(sents[k]),
                   Append(closed, JoinSpace(current)), limit, overlap)
    ELSE SplitFrom(sents, k + 1, Append(current, sents[k]), size + Len(sents[k]),
                   closed, limit, overlap)

split_text_into_chunks(sents, limit, overlap) ==
    SplitFrom(sents, 1, <<>>, 0, <<>>, limit, overlap)

\* f"{metadata['platform']}_{i}"
chunk_id_of(platform, i) == platform \o <<"_">> \o Str(i)

\* chunk i of a document, counted from 0
Chunk(found, i, metadata) ==
    [content |-> found[i + 1], chunk_id |-> chunk_id_of(metadata.platform, i),
     metadata |-> metadata]

ChunksOf(found, metadata) ==
    SubSeq([k \in 1..Len(found) |-> Chunk(found, k - 1, metadata)], 1, Len(found))

prepare_document_chunks(data, limit, overlap) ==
    ChunksOf(split_text_into_chunks(data.sentences, limit, overlap),
             extract_metadata(data))

----------------------------------------------------------------------------
(* extract_metadata, heading by heading (processors.py lines 121-137)      *)

MaxHeadings == 4

\* scraper.py line 175 finds h1, h2 and h3; level is the digit of the tag
MaxLevel == 3

HeadingTexts == {T_Setup, T_Sources}

HeadingPool == {Heading(l, t) : l \in 1..MaxLevel, t \in HeadingTexts}

\* lines 121-125
MetadataCall ==
    /\ meta_headings \in SeqsUpTo(HeadingPool, MaxHeadings)
    /\ heading_pos = 1
    /\ current_level = 0
    /\ current_hierarchy = <<>>
    /\ meta_hierarchy = <<>>
    /\ meta_pc = "loop"

\* lines 127-137: one pass of the loop
HeadingStep ==
    /\ meta_pc = "loop"
    /\ heading_pos <= Len(meta_headings)
    /\ current_hierarchy' = push_heading(current_hierarchy, meta_headings[heading_pos],
                                         current_level)
    /\ current_level' = meta_headings[heading_pos].level
    /\ meta_hierarchy' = Append(meta_hierarchy, JoinArrow(current_hierarchy'))
    /\ heading_pos' = heading_pos + 1
    /\ UNCHANGED <<meta_headings, meta_pc>>
    /\ UNCHANGED notMeta

\* the loop is over: lines 139-154
MetadataReturn ==
    /\ meta_pc = "loop"
    /\ heading_pos > Len(meta_headings)
    /\ meta_pc' = "done"
    /\ UNCHANGED <<meta_headings, heading_pos, current_level, current_hierarchy,
                   meta_hierarchy>>
    /\ UNCHANGED notMeta

MetaInit == MetadataCall /\ PipelineIdle /\ StepsIdle /\ IndexIdle /\ CrawlIdle

MetaNext == HeadingStep \/ MetadataReturn

SpecMeta == MetaInit /\ [][MetaNext]_vars

----------------------------------------------------------------------------
(* CDPScraper.crawl (scraper.py): calls of crawl on one scraper, each loop  *)
(* pass a step; the web is a finite link graph and a fetch can fail         *)

MaxPages == 3

MaxCrawls == 2

\* a URL by what urlparse makes of it
Url(netloc, path) == [netloc |-> netloc, path |-> path]

base_url == Url("segment.com", "/docs")

page_a == Url("segment.com", "/docs/a")

page_b == Url("segment.com", "/docs/b")

\* a page of another domain, and a link urlparse finds no netloc in
elsewhere == Url("example.org", "/x")

mailto == Url("", "mailto:docs@segment.com")

\* what a page can hold, every href resolved by urljoin: no link, a link
\* twice, a link back, links out of the domain
LinkLists ==
    {<<>>, <<page_a, page_a>>, <<base_url, page_b>>, <<page_b, elsewhere, page_a>>,
     <<mailto, page_b>>}

Pages == {base_url, page_a, page_b, mailto}

Sites == {s \in [Pages -> LinkLists] : s[mailto] = <<>>}

\* is_valid_url, lines 68-81
is_valid_url(url, visited) ==
    IF url = Url("", "") \/ url \in visited THEN FALSE
    ELSE IF url.netloc = "" THEN TRUE
    ELSE base_url.netloc = url.netloc

\* extract_links, lines 95-133, of the page at current_url
extract_links(links, visited) == SelectSeq(links, LAMBDA url : is_valid_url(url, visited))

\* The queue not looked at.
should_enqueue_unvisited(link, visited, queue) == link \notin visited

\* line 261: if link not in self.visited_urls and link not in urls_to_visit
should_enqueue(link, visited, queue) == link \notin visited /\ link \notin Range(queue)

\* lines 260-262: for link in links: ... urls_to_visit.append(link)
RECURSIVE Enqueue(_, _, _)
Enqueue(queue, links, visited) ==
    IF links = <<>> THEN queue
    ELSE IF should_enqueue(Head(links), visited, queue)
         THEN Enqueue(Append(queue, Head(links)), Tail(links), visited)
         ELSE Enqueue(queue, Tail(links), visited)

\* __init__, lines 40-66
NewScraper ==
    /\ site \in Sites
    /\ max_pages = 0
    /\ urls_to_visit = <<>>
    /\ visited_urls = {}
    /\ page_count = 0
    /\ fetched = <<>>
    /\ saved = <<>>
    /\ crawl_calls = 0
    /\ crawl_pc = "new"

\* lines 231-235: crawl(start_url, max_pages) is called
CrawlCall ==
    /\ crawl_pc \in {"new", "done"}
    /\ crawl_calls < MaxCrawls
    /\ \E start_url \in {base_url, page_a}, limit \in 0..MaxPages :
          /\ urls_to_visit' = <<start_url>>
          /\ max_pages' = limit
    /\ page_count' = 0
    /\ saved' = <<>>
    /\ crawl_calls' = crawl_calls + 1
    /\ crawl_pc' = "loop"
    /\ UNCHANGED <<site, visited_urls, fetched>>
    /\ UNCHANGED notCrawl

InLoop == crawl_pc = "loop" /\ urls_to_visit # <<>> /\ page_count < max_pages

\* lines 239-243: the URL taken from the queue was visited already
CrawlSkip ==
    /\ InLoop
    /\ Head(urls_to_visit) \in visited_urls
    /\ urls_to_visit' = Tail(urls_to_visit)
    /\ UNCHANGED <<site, max_pages, visited_urls, page_count, fetched, saved,
                   crawl_calls, crawl_pc>>
    /\ UNCHANGED notCrawl

\* lines 239-253: get_page_content returned None
CrawlFetchFailed ==
    /\ InLoop
    /\ Head(urls_to_visit) \notin visited_urls
    /\ urls_to_visit' = Tail(urls_to_visit)
    /\ visited_urls' = visited_urls \cup {Head(urls_to_visit)}
    /\ fetched' = Append(fetched, Head(urls_to_visit))
    /\ UNCHANGED <<site, max_pages, page_count, saved, crawl_calls, crawl_pc>>
    /\ UNCHANGED notCrawl

\* lines 239-269: the page is fetched, saved, its links put in the queue
CrawlPage ==
    /\ InLoop
    /\ Head(urls_to_visit) \notin visited_urls
    /\ visited_urls' = visited_urls \cup {Head(urls_to_visit)}
    /\ fetched' = Append(fetched, Head(urls_to_visit))
    /\ saved' = Append(saved, Head(urls_to_visit))
    /\ urls_to_visit' = Enqueue(Tail(urls_to_visit),
                                extract_links(site[Head(urls_to_visit)], visited_urls'),
                                visited_urls')
    /\ page_count' = page_count + 1
    /\ UNCHANGED <<site, max_pages, crawl_calls, crawl_pc>>
    /\ UNCHANGED notCrawl

\* line 238: the while test fails; line 271
CrawlReturn ==
    /\ crawl_pc = "loop"
    /\ ~(urls_to_visit # <<>> /\ page_count < max_pages)
    /\ crawl_pc' = "done"
    /\ UNCHANGED <<site, max_pages, urls_to_visit, visited_urls, page_count, fetched,
                   saved, crawl_calls>>
    /\ UNCHANGED notCrawl

CrawlInit == NewScraper /\ PipelineIdle /\ StepsIdle /\ IndexIdle /\ MetaIdle

\* what a running call of crawl does
CrawlStep == CrawlSkip \/ CrawlFetchFailed \/ CrawlPage \/ CrawlReturn

CrawlNext ==
    \/ CrawlCall
    \/ CrawlSkip
    \/ CrawlFetchFailed
    \/ CrawlPage
    \/ CrawlReturn

\* the thread in crawl keeps running: a call that can take a step takes one
SpecCrawl == CrawlInit /\ [][CrawlNext]_vars /\ WF_vars(CrawlStep)

----------------------------------------------------------------------------
(* process_and_index_documents (vectorstore.py): one indexing run           *)

MaxDocuments == 3

batch_size == 100

segment_guide ==
    Document(T_segment, T_Data_Tracking_Guide, "https://segment.com/docs/guide",
             <<Heading(1, T_Data_Tracking), Heading(2, T_Setup)>>,
             <<Sentence(2), Sentence(3)>>)

segment_api ==
    Document(T_segment, T_API_Reference, "https://segment.com/docs/api",
             <<Heading(2, T_Sources)>>, <<Sentence(3)>>)

lytics_overview ==
    Document(T_lytics, T_Overview, "https://docs.lytics.com/overview", <<>>,
             <<Sentence(1), Sentence(4), Sentence(2)>>)

\* a page whose cleaned content is empty
zeotap_empty == Document(T_zeotap, <<>>, "https://docs.zeotap.com/home", <<>>, <<>>)

DocumentPool == {segment_guide, segment_api, lytics_overview, zeotap_empty}

\* the files are read directory by directory: the documents of one platform
\* follow one another
ByDirectory(docs) ==
    \A i, j, k \in 1..Len(docs) :
        (i < j /\ j < k /\ docs[i].platform = docs[k].platform)
            => docs[j].platform = docs[i].platform

\* ids[i:i+batch_size] for i in range(0, len(ids), batch_size)
Batches(ids) ==
    SubSeq([b \in 1..((Len(ids) + batch_size - 1) \div batch_size) |->
               SubSeq(ids, (b - 1) * batch_size + 1, Min(b * batch_size, Len(ids)))],
           1, (Len(ids) + batch_size - 1) \div batch_size)

\* add_documents lines 91-102: doc.get("chunk_id", f"doc_{len(ids)}")
ChunkIds(documents) ==
    SubSeq([i \in 1..Len(documents) |-> documents[i].chunk_id], 1, Len(documents))

IndexRun ==
    /\ raw_documents \in {docs \in SeqsUpTo(DocumentPool, MaxDocuments) : ByDirectory(docs)}
    /\ index_chunk_size \in {4, MaxChunkSize}
    /\ index_chunk_overlap \in {0, 2}
    /\ doc_pos = 1
    /\ all_document_chunks = <<>>
    /\ collection_ids = <<>>
    /\ index_pc = "gather"

\* one iteration of "for json_file in json_files" (lines 285-298)
GatherChunks ==
    /\ index_pc = "gather"
    /\ doc_pos <= Len(raw_documents)
    /\ all_document_chunks' =
          all_document_chunks
             \o prepare_document_chunks(raw_documents[doc_pos], index_chunk_size,
                                        index_chunk_overlap)
    /\ doc_pos' = doc_pos + 1
    /\ UNCHANGED <<raw_documents, index_chunk_size, index_chunk_overlap,
                   collection_ids, index_pc>>
    /\ UNCHANGED notIndex

\* line 301 and add_documents: the ids go to the collection batch by batch
AddDocuments ==
    /\ index_pc = "gather"
    /\ doc_pos > Len(raw_documents)
    /\ collection_ids' = Batches(ChunkIds(all_document_chunks))
    /\ index_pc' = "done"
    /\ UNCHANGED <<raw_documents, index_chunk_size, index_chunk_overlap, doc_pos,
                   all_document_chunks>>
    /\ UNCHANGED notIndex

IndexInit == IndexRun /\ PipelineIdle /\ StepsIdle /\ MetaIdle /\ CrawlIdle

IndexNext == GatherChunks \/ AddDocuments

SpecIndex == IndexInit /\ [][IndexNext]_vars

----------------------------------------------------------------------------
(* Claims                                                                  *)

\* The patterns that match the lowercased query, in list order.
MatchingPatterns(query) ==
    {k \in 1..Len(feature_patterns) : Matches(feature_patterns[k], Lower(query))}

\* C2 (as claimed): the call never raises; it returns the stripped feature
\* phrase captured by the first pattern of the list that matches, and None
\* when no pattern matches.
C2_FirstMatchOrNoneNeverRaises ==
    feat_pc = "done" =>
        /\ feat_result.kind # "raise"
        /\ IF MatchingPatterns(feat_query) = {}
           THEN feat_result = None
           ELSE feat_result =
                  Some(Strip(LastGroup(
                      feature_patterns[Least(MatchingPatterns(feat_query))],
                      Lower(feat_query))))

\* The sentences chunk i adds after its carried-over head.
NewSentences(i) == SubSeq(chunk_sents[i], carried[i] + 1, Len(chunk_sents[i]))

\* C3 (as claimed): every returned chunk, joining blanks included, is at most
\* chunk_size characters long, unless it is exactly one sentence that alone
\* is longer than chunk_size.
C3_ChunkWithinSize ==
    split_pc = "done" =>
        \A i \in 1..Len(chunks) :
            \/ Len(chunks[i]) <= chunk_size
            \/ /\ Len(chunk_sents[i]) = 1
               /\ Len(chunk_sents[i][1]) > chunk_size

\* C4: each returned chunk is the join of its sentence list; the head of a
\* chunk that was carried over is a suffix of the previous chunk (nothing is
\* carried into the first); dropping the carried heads and concatenating
\* what is left gives the original sentence sequence.
C4_OverlapRemovedReconstructs ==
    split_pc = "done" =>
        /\ Len(chunk_sents) = Len(chunks)
        /\ Len(carried) = Len(chunks)
        /\ \A i \in 1..Len(chunks) :
              /\ chunks[i] = JoinSpace(chunk_sents[i])
              /\ carried[i] <= Len(chunk_sents[i])
              /\ i = 1 => carried[i] = 0
              /\ i > 1 =>
                    /\ carried[i] <= Len(chunk_sents[i - 1])
                    /\ SubSeq(chunk_sents[i], 1, carried[i]) =
                         SubSeq(chunk_sents[i - 1],
                                Len(chunk_sents[i - 1]) - carried[i] + 1,
                                Len(chunk_sents[i - 1]))
        /\ Flatten([i \in 1..Len(chunks) |-> NewSentences(i)]) = sentences

\* A finished split with several chunks, one of which starts with carried
\* sentences.
C4_Witness ==
    /\ split_pc = "done"
    /\ Len(chunks) >= 3
    /\ \E i \in 1..Len(chunks) : carried[i] > 0 /\ carried[i] < Len(chunk_sents[i])

----------------------------------------------------------------------------
(* Claims on the ranker                                                    *)

Ranked == rank_pc \in {"filter", "done"}

Filtered == rank_pc = "done"

\* a ranked result without the three scores rank_results added
Unscored(r) ==
    [content |-> r.content, metadata |-> r.metadata, id |-> r.id,
     distance |-> r.distance]

ScoreFields == {"content_score", "metadata_score", "final_score"}

InUnitInterval(x) == RLeq(Rat(0, 1), x) /\ RLeq(x, Rat(1, 1))

\* C5: filter_results, given what rank_results returned, returns only
\* results of final_score >= 0.3, no two results with the same first 100
\* characters of content, and for every group of results sharing their first
\* 100 characters the one of highest final_score (when it reaches 0.3).
C5_FilterKeepsBestOfDuplicates ==
    Filtered =>
        /\ \A k \in 1..Len(filtered_results) :
              /\ \E i \in 1..Len(ranked_results) :
                    filtered_results[k] = ranked_results[i]
              /\ RLeq(Rat(3, 10), filtered_results[k].final_score)
        /\ \A k, l \in 1..Len(filtered_results) :
              k # l => ContentHash(filtered_results[k].content)
                          # ContentHash(filtered_results[l].content)
        /\ \A i \in 1..Len(ranked_results) :
              RLeq(Rat(3, 10), ranked_results[i].final_score) =>
                  \E k \in 1..Len(filtered_results) :
                      /\ ContentHash(filtered_results[k].content)
                            = ContentHash(ranked_results[i].content)
                      /\ \A j \in 1..Len(ranked_results) :
                            ContentHash(ranked_results[j].content)
                                  = ContentHash(ranked_results[i].content)
                               => RLeq(ranked_results[j].final_score,
                                       filtered_results[k].final_score)

\* Two different contents with the same first 100 characters and different
\* scores both reach the threshold, a third result does not, and one result
\* is returned.
C5_Witness ==
    /\ Filtered
    /\ Len(filtered_results) = 1
    /\ \E i, j, k \in 1..Len(ranked_results) :
          /\ ranked_results[i].content # ranked_results[j].content
          /\ ContentHash(ranked_results[i].content)
                = ContentHash(ranked_results[j].content)
          /\ RLess(ranked_results[j].final_score, ranked_results[i].final_score)
          /\ RLeq(Rat(3, 10), ranked_results[j].final_score)
          /\ RLess(ranked_results[k].final_score, Rat(3, 10))

\* C6: rank_results returns the input results, each exactly once and each
\* with content_score, metadata_score and final_score added, in an order of
\* non-increasing final_score in which results of equal final_score keep
\* their input order; an empty input gives an empty output.
C6_RankIsStableDescendingPermutation ==
    Ranked =>
        LET n == Len(rank_input)
        IN /\ Len(ranked_results) = n
           /\ \A i, j \in 1..n :
                 i < j => RLeq(ranked_results[j].final_score,
                               ranked_results[i].final_score)
           /\ \E pi \in [1..n -> 1..n] :
                 /\ \A i, j \in 1..n : i # j => pi[i] # pi[j]
                 /\ \A i, j \in 1..n :
                       (i < j /\ ranked_results[j].final_score
                                    = ranked_results[i].final_score) => pi[i] < pi[j]
                 /\ \A i \in 1..n :
                       /\ DOMAIN ranked_results[i]
                             = DOMAIN rank_input[pi[i]] \cup ScoreFields
                       /\ Unscored(ranked_results[i]) = rank_input[pi[i]]

\* Three results: the first of the input is not the best, and two different
\* results of equal final_score follow the best one.
C6_Witness ==
    /\ Ranked
    /\ Len(ranked_results) = 3
    /\ ranked_results[1].id # rank_input[1].id
    /\ RLess(ranked_results[2].final_score, ranked_results[1].final_score)
    /\ ranked_results[2].final_score = ranked_results[3].final_score
    /\ ranked_results[2].id # ranked_results[3].id

\* C7: the content_score, the metadata_score and the final_score that
\* rank_results attaches to a result all lie in [0, 1].
C7_ScoresInUnitInterval ==
    Ranked =>
        \A i \in 1..Len(ranked_results) :
            /\ InUnitInterval(ranked_results[i].content_score)
            /\ InUnitInterval(ranked_results[i].metadata_score)
            /\ InUnitInterval(ranked_results[i].final_score)

\* A content denser in keywords than 5 per 100 words, at a distance above 1,
\* next to a result with a content score and one with a metadata score that
\* are positive and below 1.
C7_Witness ==
    /\ Ranked
    /\ \E i, j, k \in 1..Len(ranked_results) :
          /\ ranked_results[i].content_score = Rat(1, 1)
          /\ ranked_results[i].distance = Some(Rat(3, 2))
          /\ RLess(Rat(0, 1), ranked_results[j].content_score)
          /\ RLess(ranked_results[j].content_score, Rat(1, 1))
          /\ RLess(Rat(0, 1), ranked_results[k].metadata_score)
          /\ RLess(ranked_results[k].metadata_score, Rat(1, 1))

\* the distance term as the specification words it
DistanceTerm(distance) ==
    IF distance = None THEN Rat(1, 1)
    ELSE IF RLeq(Rat(1, 1), distance.value) THEN Rat(0, 1)
    ELSE RSub(Rat(1, 1), distance.value)

\* C8: final_score = 0.5 * distance_score + 0.3 * content_score
\* + 0.2 * metadata_score, distance_score being 1 without a distance and
\* 1 - min(1, distance) with one; distance 0 with both other scores 1 gives
\* exactly 1; a result without distance scores what it would score at
\* distance 0, and not less than it would at any other distance.
C8_FinalScoreFormula ==
    Ranked =>
        \A i \in 1..Len(ranked_results) :
            LET r == ranked_results[i]
                at(d) == calculate_final_score(Some(d), r.content_score,
                                               r.metadata_score)
            IN /\ r.final_score =
                    RAdd(RAdd(RMul(Rat(1, 2), DistanceTerm(r.distance)),
                              RMul(Rat(3, 10), r.content_score)),
                         RMul(Rat(1, 5), r.metadata_score))
               /\ (/\ r.distance = Some(Rat(0, 1))
                   /\ r.content_score = Rat(1, 1)
                   /\ r.metadata_score = Rat(1, 1)) => r.final_score = Rat(1, 1)
               /\ r.distance = None =>
                     /\ r.final_score = at(Rat(0, 1))
                     /\ \A d \in RankDistances : RLeq(at(d), r.final_score)

\* Results without distance, one of them with content and metadata scores
\* of 1 and so a final score of 1, another with lower scores.
C8_Witness ==
    /\ Ranked
    /\ \E i, j \in 1..Len(ranked_results) :
          /\ ranked_results[i].distance = None
          /\ ranked_results[i].content_score = Rat(1, 1)
          /\ ranked_results[i].metadata_score = Rat(1, 1)
          /\ ranked_results[i].final_score = Rat(1, 1)
          /\ ranked_results[j].distance = None
          /\ RLess(ranked_results[j].content_score, Rat(1, 1))
          /\ RLess(Rat(1, 2), ranked_results[j].final_score)

----------------------------------------------------------------------------
(* Claims on process_query and the retrievers                              *)

Preprocessed == query_pc \in {"route", "compare", "done"}

QueryDone == query_pc = "done"

\* the platforms a comparison query is compared over
ComparedPlatforms(query) ==
    IF extract_cdps_for_comparison(query) = <<>> THEN cdp_names
    ELSE extract_cdps_for_comparison(query)

\* C1 (as claimed): a message whose preprocessed text is not empty and holds
\* no term of the relevance vocabulary never makes process_query call the
\* Index, and is answered with a result of type irrelevant, on the regular
\* and on the comparison path alike.
C1_IrrelevantNeverQueriesIndex ==
    (Preprocessed /\ processed_query # <<>> /\ ~is_relevant_query(processed_query)) =>
        /\ index_calls = <<>>
        /\ QueryDone => (response.kind = "value" /\ response.value.type = "irrelevant")

\* what the retriever kept of each answer of the Index, with that answer
Retrievals ==
    IF ~Preprocessed \/ index_calls = <<>> THEN {}
    ELSE IF IsComparisonRoute(processed_query)
    THEN {[returned |-> index_calls[i].returned, kept |-> comparison_results[i].results] :
             i \in 1..Len(comparison_results)}
    ELSE {[returned |-> index_calls[1].returned, kept |-> relevant_results]}

\* C9 (as claimed): retrieve and retrieve_for_comparison keep, in the order
\* of the Index, exactly the results without distance and those whose
\* distance is at most SIMILARITY_THRESHOLD; a result at the threshold is kept.
C9_KeepsUpToThreshold ==
    \A r \in Retrievals :
        r.kept = SelectSeq(r.returned,
                           LAMBDA x : x.distance = None
                                         \/ RLeq(x.distance.value, SIMILARITY_THRESHOLD))

\* C9 (amended): retrieve and retrieve_for_comparison keep, in the order of
\* the Index, exactly the results without distance and those whose distance
\* is below SIMILARITY_THRESHOLD; a result at the threshold is dropped.
C9_KeepsBelowThreshold ==
    \A r \in Retrievals :
        r.kept = SelectSeq(r.returned,
                           LAMBDA x : x.distance = None
                                         \/ RLess(x.distance.value, SIMILARITY_THRESHOLD))

\* A comparison has returned in which one platform's answer held a result
\* below and a result at the threshold, and another's a result above it.
C9_Witness ==
    /\ QueryDone
    /\ Len(comparison_results) >= 2
    /\ \E r, q \in Retrievals :
          /\ Len(r.returned) = 2
          /\ r.returned[1].distance = Some(Rat(3, 10))
          /\ r.returned[2].distance = Some(SIMILARITY_THRESHOLD)
          /\ r.kept = <<r.returned[1]>>
          /\ Len(q.returned) = 1
          /\ q.returned[1].distance = Some(Rat(9, 10))
          /\ q.kept = <<>>

\* C10 (as claimed): a comparison queries the Index once per compared
\* platform, with that platform as the filter, and the list stored for a
\* platform is the cutoff of the answer to that platform's own query, whatever
\* the other queries were answered.
C10_OneQueryPerPlatform ==
    (QueryDone /\ processed_query # <<>> /\ IsComparisonRoute(processed_query)) =>
        LET compared == ComparedPlatforms(processed_query)
        IN /\ Len(index_calls) = Len(compared)
           /\ Len(comparison_results) = Len(compared)
           /\ \A i \in 1..Len(compared) :
                 /\ index_calls[i].where = Some(compared[i])
                 /\ comparison_results[i] =
                       [cdp |-> compared[i],
                        results |-> RelevantResults(index_calls[i].returned)]

\* C11 (as claimed): process_query answers every comparison query, the
\* platforms it compares are exactly those the query names, or all four of
\* cdp_names when it names none, and the result dict of a comparison has one
\* key for each compared platform and no other.
C11_ComparesNamedPlatformsOrAll ==
    (QueryDone /\ processed_query # <<>> /\ IsComparisonRoute(processed_query)) =>
        LET compared == ComparedPlatforms(processed_query)
        IN /\ response.kind = "value"
           /\ query_analysis # None
           /\ query_analysis.value.cdps = compared
           /\ PlatformKeys(comparison_results) = compared
           /\ response.value.type = "comparison" =>
                 PlatformKeys(response.value.results) = compared

----------------------------------------------------------------------------
(* Claims on the query classifier                                          *)

\* the words the specification lists as comparison patterns
ComparisonWords ==
    {T_compare, T_difference_between, T_vs, T_versus, T_which_is_better,
     T_pros_and_cons}

\* the words the specification lists as how-to patterns
HowToWords ==
    {T_how_to, T_how_do, T_how_can, T_how_should, T_steps_to, T_guide_for,
     T_tutorial, T_instructions_for, T_process_of}

HoldsOneOf(query, words) == \E w \in words : Contains(Lower(query), w)

\* C12: every query is given one of the three types; a query holding a
\* comparison word is a comparison, also when it holds a how-to word; a query
\* holding a how-to word and no comparison word is a how-to; any other query
\* is general.
C12_ClassificationByPrecedence ==
    classify_pc = "done" =>
        /\ classify_result \in {"comparison", "how-to", "general"}
        /\ classify_result =
              IF HoldsOneOf(classify_query, ComparisonWords) THEN "comparison"
              ELSE IF HoldsOneOf(classify_query, HowToWords) THEN "how-to"
              ELSE "general"

\* "How do I compare segment and mparticle" holds a word of each list and was
\* classified a comparison.
C12_Witness ==
    /\ classify_pc = "done"
    /\ classify_query = T_How_do_I_ \o T_compare_segment_and_mparticle
    /\ HoldsOneOf(classify_query, HowToWords)
    /\ HoldsOneOf(classify_query, ComparisonWords)
    /\ classify_result = "comparison"

----------------------------------------------------------------------------
(* Claims on the comparison results processor                              *)

\* the query process_query ranks a comparison by
RankingQuery ==
    IF Truthy(query_analysis.value.feature) THEN query_analysis.value.feature.value
    ELSE processed_query

IsComparisonAnswer ==
    QueryDone /\ response.kind = "value" /\ response.value.type = "comparison"

\* C13: the dict process_comparison_results returns has the platform keys of
\* the dict it was given, in the same order, a platform left without a result
\* included with an empty list; the list of a platform is what ranking and
\* filtering make of that platform's own list, whatever the lists of the
\* other platforms hold.
C13_EveryPlatformKeptAndProcessedAlone ==
    IsComparisonAnswer =>
        LET given == comparison_results
            returned == response.value.results
        IN /\ PlatformKeys(returned) = PlatformKeys(given)
           /\ \A i \in 1..Len(given) :
                 /\ returned[i].results =
                       filter_results(rank_results(given[i].results, RankingQuery))
                 /\ given[i].results = <<>> => returned[i].results = <<>>

\* A comparison of two platforms returned: the results of the first all
\* scored below the threshold of filter_results and its list is empty, the
\* second kept a result.
C13_Witness ==
    /\ IsComparisonAnswer
    /\ Len(comparison_results) = 2
    /\ Len(comparison_results[1].results) = 2
    /\ response.value.results[1] = [cdp |-> T_segment, results |-> <<>>]
    /\ response.value.results[2].cdp = T_lytics
    /\ Len(response.value.results[2].results) = 1

----------------------------------------------------------------------------
(* Claims on the response generator                                        *)

Generated == respond_pc = "done"

\* the section of platform cdp starts at piece k of the text
IsSectionAt(text, k, cdp) ==
    /\ text[k] = "**"
    /\ IsAt(Capitalize(cdp), text, k + 1)
    /\ k + Len(cdp) + 1 <= Len(text)
    /\ text[k + Len(cdp) + 1] = "**:\n"

\* the platforms of the sections of a text, in the order of the text
SectionPlatforms(text) ==
    LET starts == SelectSeq(Indices(text),
                            LAMBDA k : \E c \in 1..Len(cdp_names) :
                                          IsSectionAt(text, k, cdp_names[c]))
    IN SubSeq([i \in 1..Len(starts) |->
                  cdp_names[CHOOSE c \in 1..Len(cdp_names) :
                               IsSectionAt(text, starts[i], cdp_names[c])]],
              1, Len(starts))

\* C14 (as claimed): the text generate_comparison_response makes of a
\* comparison has one section for each platform key of the result dict, in
\* the order of the dict, the platforms with an empty list included; the
\* section of a platform with results holds its top result, the content cut
\* at 300 characters, and the source line of that result.
C14_OneSectionPerPlatform ==
    (Generated /\ respond_input.type = "comparison") =>
        LET text == payload.value.content
            by_cdp == respond_input.results
        IN /\ SectionPlatforms(text) = PlatformKeys(by_cdp)
           /\ \A i \in 1..Len(by_cdp) :
                 by_cdp[i].results # <<>> =>
                    Contains(text,
                             <<"**">> \o Capitalize(by_cdp[i].cdp) \o <<"**:\n">>
                                \o Truncated(by_cdp[i].results[1].content, 300)
                                \o <<"\n\n", "Source: ">>)

\* C15: generate_response returns a payload of type text for a result of
\* every type, and for a result of type error, irrelevant or no_results, of
\* the regular or of the comparison path, the content is the one piece that
\* is the message the result carries.
C15_TextPayloadCarriesMessage ==
    Generated =>
        /\ respond_input.type \in {"error", "irrelevant", "no_results", "answer", "comparison"}
        /\ payload.value.type = "text"
        /\ respond_input.type \in {"error", "irrelevant", "no_results"} =>
              payload.value.content = <<respond_input.message>>

\* The no_results result of a comparison was turned into its payload.
C15_Witness ==
    /\ Generated
    /\ respond_input.type = "no_results"
    /\ "cdps" \in DOMAIN respond_input.analysis
    /\ payload.value = [type |-> "text", content |-> <<respond_input.message>>]

\* the numbered lines of the first n steps, in characters
RECURSIVE NumberedLines(_, _)
NumberedLines(n, i) ==
    IF i > n THEN <<>>
    ELSE (IF i = 1 THEN <<>> ELSE <<"\n">>) \o Str(i) \o <<".", " ">> \o StepTexts[i]
            \o NumberedLines(n, i + 1)

----------------------------------------------------------------------------
(* Claims on failures of the Index                                         *)

\* C17: when the collection raises during a call of VectorStore.query, no
\* exception leaves process_query and the call counts as one that found
\* nothing: on the regular path the result is of type no_results; in a
\* comparison the platform of the failed call gets an empty list, every
\* platform whose call succeeded keeps what its own answer gave, and the
\* result is a comparison or no_results.
C17_IndexFailureAbsorbed ==
    \A i \in 1..Len(index_calls) :
        index_calls[i].raised =>
            /\ response = None \/ response.kind = "value"
            /\ index_calls[i].returned = <<>>
            /\ IF IsComparisonRoute(processed_query)
               THEN /\ Len(comparison_results) >= i
                    /\ comparison_results[i].results = <<>>
                    /\ \A j \in 1..Len(comparison_results) :
                          ~index_calls[j].raised =>
                             comparison_results[j].results =
                                RelevantResults(index_calls[j].returned)
                    /\ QueryDone =>
                          /\ response.value.type \in {"comparison", "no_results"}
                          /\ response.value.type = "comparison" =>
                                response.value.results[i].results = <<>>
               ELSE QueryDone => response.value.type = "no_results"

\* A comparison of two platforms returned: the call for the first platform
\* failed, the second platform has a result in the comparison.
C17_Witness ==
    /\ IsComparisonAnswer
    /\ Len(index_calls) = 2
    /\ index_calls[1].raised
    /\ ~index_calls[2].raised
    /\ response.value.results[1].results = <<>>
    /\ response.value.results[2].results # <<>>

----------------------------------------------------------------------------
(* Claims on empty messages                                                *)

IsBlank(text) == \A k \in 1..Len(text) : text[k] \in WhiteSpace

\* C18: for a message that is empty or made of white space only,
\* process_query raises nothing, never calls the Index and returns the
\* result of type error with the message "Please provide a valid question.".
C18_BlankMessageIsAnError ==
    (query_pc # "idle" /\ IsBlank(message)) =>
        /\ index_calls = <<>>
        /\ QueryDone =>
              /\ response.kind = "value"
              /\ response.value.type = "error"
              /\ response.value.message = "Please provide a valid question."

\* The message of a blank, a tab and a line break was answered.
C18_Witness ==
    /\ QueryDone
    /\ message = <<" ", "\t", "\n">>
    /\ response.kind = "value"
    /\ response.value.type = "error"
    /\ index_calls = <<>>

----------------------------------------------------------------------------
(* Claims on POST /api/chat                                                *)

ChatDone == chat_pc = "done"

\* the body is JSON and is not an object with the key message
LacksMessage(data) == data.readable /\ ~(data.json = "object" /\ data.has_message)

\* the message was taken from the body and processing it raised
ProcessingRaised(data, st) ==
    /\ data.readable /\ data.json = "object" /\ data.has_message
    /\ \/ data.message.json # "string"
       \/ process_query(st, data.message.text).kind = "raise"

\* C19 (as claimed): the reply to a body without the field message has status
\* 400 and process_query is not called for it; when processing the message
\* raises, the reply has status 500 and the fixed error text; every reply has
\* status 200, 400 or 500.
C19_MissingMessageIs400 ==
    ChatDone =>
        /\ http_response.value.status \in {200, 400, 500}
        /\ LacksMessage(request) =>
              /\ http_response.value.status = 400
              /\ pipeline_calls = <<>>
        /\ ProcessingRaised(request, chat_store) =>
              /\ http_response.value.status = 500
              /\ http_response.value.body =
                    [error |-> "An error occurred while processing your message."]

\* C20: under every interleaving of the calls in flight, no step writes to
\* the Index, a call that finishes has returned what process_query returns for
\* its message when it runs alone on the same Index, the payload made of it
\* is that of generate_response, and what a finished call returned stays
C20_ConcurrentCallsAsAlone ==
    [][/\ store' = store
       /\ \A t \in CallIds :
             /\ pcs[t].at = "done" => pcs'[t] = pcs[t]
             /\ pcs'[t].message = pcs[t].message
             /\ (pcs[t].at # "done" /\ pcs'[t].at = "done") =>
                   /\ pcs'[t].response = process_query(store, pcs[t].message)
                   /\ pcs'[t].response.kind # "raise" =>
                         pcs'[t].payload =
                            Some(generate_response(
                                    process_query(store, pcs[t].message).value))]_vars

\* a comparison has returned its answer while another call, for another
\* message, is inside its loop over the platforms
C20_Witness ==
    \E t, u \in DOMAIN pcs :
        /\ pcs[t].at = "done"
        /\ pcs[t].response.kind = "value"
        /\ pcs[t].response.value.type = "comparison"
        /\ pcs[u].at = "compare"
        /\ pcs[u].message # pcs[t].message
        /\ frames[u].comparison_results # <<>>

----------------------------------------------------------------------------
(* Claims on the overlap of split_text_into_chunks                         *)

\* the sentences closed chunk i started with, carried over from chunk i - 1
CarriedInto(i) == SubSeq(chunk_sents[i], 1, carried[i])

\* the last n of ss
LastOf(ss, n) == SubSeq(ss, Len(ss) - n + 1, Len(ss))

\* C23: the sentences carried into the next chunk are a suffix of the closed
\* chunk in the same order, the next chunk starts with exactly that carried
\* text, and the carried text is at most chunk_overlap characters long
C23_CarriedSuffixWithinOverlap ==
    \A i \in 2..Len(chunks) :
        /\ carried[i] <= Len(chunk_sents[i - 1])
        /\ CarriedInto(i) = LastOf(chunk_sents[i - 1], carried[i])
        /\ IsAt(JoinSpace(CarriedInto(i)), chunks[i], 1)
        /\ IsAt(JoinSpace(CarriedInto(i)), chunks[i - 1],
                Len(chunks[i - 1]) - Len(JoinSpace(CarriedInto(i))) + 1)
        /\ Len(JoinSpace(CarriedInto(i))) <= chunk_overlap

----------------------------------------------------------------------------
(* Claims on the indexing run                                              *)

\* C21: across all chunks one indexing run hands to the Index, no two chunks
\* carry the same chunk_id
C21_ChunkIdsUnique ==
    index_pc = "done" =>
        \A i, j \in 1..Len(all_document_chunks) :
            i # j => all_document_chunks[i].chunk_id # all_document_chunks[j].chunk_id

----------------------------------------------------------------------------
(* Claims on _extract_steps                                                *)

\* the steps of the claim: a pattern counts when it finds at least 2 steps
StepsWhenAtLeastTwo(content, numbered_steps, bullet_steps) ==
    IF Len(numbered_steps) >= 2 THEN Stripped(numbered_steps)
    ELSE IF Len(bullet_steps) >= 2 THEN Stripped(bullet_steps)
    ELSE SelectSeq(Stripped(SplitSentences(content)), LAMBDA t : Len(t) > 20)

\* C22: _extract_steps tries the numbered pattern, then the bullet pattern,
\* and splits into sentences of more than 20 characters whenever neither
\* pattern finds at least 2 steps
C22_SentencesUnlessTwoSteps ==
    steps_pc = "done" =>
        steps_found =
            Some(StepsWhenAtLeastTwo(steps_content,
                                     FindSteps(steps_content, 1, "numbered"),
                                     FindSteps(steps_content, 1, "bullet")))

----------------------------------------------------------------------------
(* Claims on the heading hierarchy of extract_metadata                     *)

\* the stack after the first k headings when it is cut to level - 1 at every
\* heading, whatever the level before
RECURSIVE StackAfter(_, _)
StackAfter(hs, k) ==
    IF k = 0 THEN <<>>
    ELSE Append(Slice(StackAfter(hs, k - 1), hs[k].level - 1), hs[k].text)

\* C24: extract_metadata yields one hierarchy string per heading, in order,
\* the " > " join of the stack cut to level - 1 and pushed with the heading's
\* text; cutting only when level <= the level before gives the same, and the
\* stack is never longer than the level of the last heading
C24_HierarchyAsUnconditionalStack ==
    /\ meta_pc # "idle" =>
        /\ Len(meta_hierarchy) = heading_pos - 1
        /\ \A k \in 1..Len(meta_hierarchy) :
               meta_hierarchy[k] = JoinArrow(StackAfter(meta_headings, k))
        /\ current_hierarchy = StackAfter(meta_headings, heading_pos - 1)
        /\ Len(current_hierarchy) <= current_level
    /\ meta_pc = "done" =>
        /\ Len(meta_hierarchy) = Len(meta_headings)
        /\ HierarchyFrom(meta_headings, 1, 0, <<>>, <<>>) = meta_hierarchy

\* a level is skipped on the way down and the stack is cut on the way up
C24_Witness ==
    /\ meta_pc = "done"
    /\ \E k \in 2..Len(meta_headings) :
           meta_headings[k].level > meta_headings[k - 1].level + 1
    /\ \E k \in 2..Len(meta_headings) :
           meta_headings[k].level <= meta_headings[k - 1].level

----------------------------------------------------------------------------
(* Claims on the routing of process_query                                  *)

\* the request went through _process_comparison_query: its analysis is the
\* one retrieve_for_comparison builds
OnComparisonPath == query_analysis # None /\ "cdps" \in DOMAIN query_analysis.value

\* C25: a query is handled on the comparison path (result type comparison or
\* no_results) exactly when _classify_query_type labels it comparison; no
\* result of type answer carries analysis.query_type = comparison
C25_ComparisonClassifiedOnComparisonPath ==
    (query_pc = "done" /\ processed_query # <<>>) =>
        /\ classify_query_type(processed_query) = "comparison" =>
               /\ OnComparisonPath
               /\ response.kind = "value"
               /\ response.value.type \in {"comparison", "no_results"}
        /\ OnComparisonPath => classify_query_type(processed_query) = "comparison"
        /\ (response.kind = "value" /\ response.value.type = "answer") =>
               response.value.analysis.query_type # "comparison"

----------------------------------------------------------------------------
(* Claims on the results of process_query                                  *)

\* C26: a result of type answer carries at least one retrieval result, and a
\* result of type comparison carries at least one platform with a non-empty
\* list: when nothing survives ranking and filtering the type is no_results
C26_AnswerCarriesResults ==
    (query_pc = "done" /\ response.kind = "value") =>
        /\ response.value.type = "answer" => response.value.results # <<>>
        /\ response.value.type = "comparison" =>
               \E i \in 1..Len(response.value.results) :
                   response.value.results[i].results # <<>>

----------------------------------------------------------------------------
(* Claims on results without a distance                                    *)

\* result i of the ranked list is in what filter_results returned
KeptByFilter(i) ==
    \E k \in 1..Len(filtered_results) : filtered_results[k] = ranked_results[i]

\* an earlier result of the ranked list has the same first 100 characters
DuplicateOfEarlier(i) ==
    \E j \in 1..(i - 1) :
        ContentHash(ranked_results[j].content) = ContentHash(ranked_results[i].content)

\* C27: a result whose distance is null gets final_score >= 0.5 from
\* rank_results, so the 0.3 threshold of filter_results never removes it:
\* it is missing from the filtered list only as a duplicate of an earlier one
C27_NullDistanceSurvivesThreshold ==
    /\ Ranked =>
          \A i \in 1..Len(ranked_results) :
              ranked_results[i].distance = None =>
                  /\ RLeq(Rat(1, 2), ranked_results[i].final_score)
                  /\ PassesThreshold(ranked_results[i])
    /\ Filtered =>
          \A i \in 1..Len(ranked_results) :
              (ranked_results[i].distance = None /\ ~KeptByFilter(i)) =>
                  DuplicateOfEarlier(i)

\* Results without a distance: one scores exactly 0.5, with nothing from its
\* content and metadata, and is kept; another is removed as a duplicate.
C27_Witness ==
    /\ Filtered
    /\ \E i, j \in 1..Len(ranked_results) :
          /\ ranked_results[i].distance = None
          /\ ranked_results[i].content_score = Rat(0, 1)
          /\ ranked_results[i].metadata_score = Rat(0, 1)
          /\ ranked_results[i].final_score = Rat(1, 2)
          /\ KeptByFilter(i)
          /\ ranked_results[j].distance = None
          /\ ~KeptByFilter(j)
          /\ DuplicateOfEarlier(j)

----------------------------------------------------------------------------
(* Claims on the feature named by a comparison response                    *)

\* C28: when no feature phrase was extracted (analysis.feature is null), the
\* header and the summary of the comparison response name the fallback
\* phrase "this feature", never a null value
C28_NoFeatureNamesThisFeature ==
    (/\ Generated
     /\ respond_input.type = "comparison"
     /\ respond_input.analysis.feature = None
     /\ \E i \in 1..Len(respond_input.results) : respond_input.results[i].results # <<>>) =>
        LET text == payload.value.content
        IN /\ IsAt(<<"Here's a comparison of how different CDPs handle ">>
                      \o T_this_feature \o <<":\n\n">>, text, 1)
           /\ Contains(text, <<"Each CDP platform has its own approach to ">>
                                \o T_this_feature \o <<". ">>)

----------------------------------------------------------------------------
(* Claims on filter_results as a function                                  *)

\* a is b with some entries left out, the rest in b's order and unaltered
RECURSIVE IsSubsequence(_, _)
IsSubsequence(a, b) ==
    IF a = <<>> THEN TRUE
    ELSE IF b = <<>> THEN FALSE
    ELSE IF Head(a) = Head(b) THEN IsSubsequence(Tail(a), Tail(b))
    ELSE IsSubsequence(a, Tail(b))

\* the ranked list in ascending order: a list filter_results can be given
\* that rank_results did not sort
Ascending == SubSeq([i \in 1..Len(ranked_results) |->
                        ranked_results[Len(ranked_results) + 1 - i]],
                    1, Len(ranked_results))

\* C29: filter_results returns a subsequence of its input (relative order
\* kept, nothing added or altered) and is idempotent
C29_FilterIsIdempotentSubsequence ==
    /\ Filtered =>
          /\ IsSubsequence(filtered_results, ranked_results)
          /\ filter_results(filtered_results) = filtered_results
    /\ Ranked =>
          /\ IsSubsequence(filter_results(Ascending), Ascending)
          /\ filter_results(filter_results(Ascending)) = filter_results(Ascending)

\* Of three ranked results the filter removed the one in the middle, as a
\* duplicate, and kept the other two
C29_Witness ==
    /\ Filtered
    /\ Len(ranked_results) = 3
    /\ filtered_results = <<ranked_results[1], ranked_results[3]>>
    /\ PassesThreshold(ranked_results[2])

----------------------------------------------------------------------------
(* Claims on the crawl                                                     *)

NoDuplicates(s) == \A i, j \in 1..Len(s) : i # j => s[i] # s[j]

CrawlWithinBounds ==
    /\ NoDuplicates(fetched)
    /\ Len(saved) <= Max(max_pages, 0)
    /\ page_count = Len(saved)
    /\ NoDuplicates(urls_to_visit)

\* C30: crawl over a finite link graph terminates, fetches each URL at most
\* once, saves at most max_pages pages, and never holds the same URL twice
\* in its queue of URLs to visit
C30_CrawlTerminatesWithinBounds ==
    /\ [](crawl_pc # "idle" => CrawlWithinBounds)
    /\ (crawl_pc = "loop") ~> (crawl_pc = "done")

\* a first crawl has ended at max_pages with a URL left in its queue, after
\* a fetch that failed; a page it fetched holds a link twice or links back
C30_Witness ==
    /\ crawl_pc = "done"
    /\ crawl_calls = 1
    /\ max_pages >= 2
    /\ page_count = max_pages
    /\ urls_to_visit # <<>>
    /\ Len(fetched) > Len(saved)
    /\ \E p \in Range(fetched) :
          /\ Len(site[p]) >= 2
          /\ \/ \E i, j \in 1..Len(site[p]) : i # j /\ site[p][i] = site[p][j]
             \/ \E i \in 1..Len(site[p]) : site[p][i] \in Range(fetched)

====
